---- MODULE Spec2Model ----
(***************************************************************************)
(* The ingestion pipeline of backbeat: one IngestionReader (one source     *)
(* bucket), its IngestionProducer, the source raft log, the Coordinator    *)
(* (zookeeper) nodes holding the bucket's progress, and the bus producer.  *)
(* A batch cycle (processLogEntries) is an asynchronous waterfall: each    *)
(* suspension point of the code is a position of pc, and each callback     *)
(* that resumes the waterfall is one action.                               *)
(***************************************************************************)
EXTENDS Integers, Sequences, FiniteSets, TLC

\* ---------------------------------------------------------------- bounds
MaxLog == 3
MaxRead == 2
MaxPublished == 2
MaxSnapshots == 2
MaxPartitions == 2
MaxRecords == 33
MaxOffset == 2

\* ------------------------------------------------------------- JS values
Undefined == "undefined"
NoNode == "NO_NODE"
EmptyNode == "empty"
\* integer-typed slots that hold JS undefined / null
UndefinedNum == 0 - 1
NullNum == 0 - 2

\* null + n is n in JS (ToNumber(null) = 0)
JsNum(x) == IF x = NullNum THEN 0 ELSE x

Min(a, b) == IF a < b THEN a ELSE b

\* ---------------------------------------------------------- configuration
\* Names and keys are sequences of tokens, so that the code's template strings
\* and split() calls are computed and not looked up.
UndefinedStr == <<"undefined">>
SourceBucket == <<"bucket1">>
OtherBucket == <<"bucket2">>
TargetZenkoBucket == <<"zenkobucket">>
UsersBucket == <<"users..bucket">>
MetastoreBucket == <<"metastore">>
\* the raft session the source reports for SourceBucket
SourceRaftId == 1
\* the raft session the bucket is on at the other source
OtherRaftId == 2
\* the offset LogReader.setup gives a log that has no logOffset node yet
InitialLogOffset == 1

\* ------------------------------------------------------------ source log
\* An entry as the source serialises it; type may be absent (legacy put).
PutK1 == [type |-> Undefined, key |-> <<"k1">>, value |-> "md1"]
PutK2 == [type |-> "put", key |-> <<"k2">>, value |-> "md2"]
DelK1 == [type |-> "del", key |-> <<"k1">>, value |-> Undefined]
\* the entry of the users bucket that records the creation of SourceBucket
PutUsersKey == [type |-> "put", key |-> <<"owner1", "..|..">> \o SourceBucket,
                value |-> "creationDate"]
KeyOrder == << <<"k1">>, <<"k2">> >>

RecordKinds ==
    { [db |-> SourceBucket, entries |-> <<PutK1>>],
      [db |-> SourceBucket, entries |-> <<PutK2, DelK1>>],
      [db |-> OtherBucket, entries |-> <<PutK2>>],
      [db |-> UsersBucket, entries |-> <<PutUsersKey>>] }

\* a stream that leaves an absent type absent
DefaultType_Keep(t) == t

\* ListRecordStream._transform: entry.type = entry.type || 'put', done in
\* place on the record object the reader's data listener receives next.
DefaultType(t) == IF t = Undefined THEN "put" ELSE t

ListRecordTransform(record) ==
    [record EXCEPT !.entries =
        [i \in 1..Len(record.entries) |->
            [record.entries[i] EXCEPT !.type = DefaultType(@)]]]

VARIABLES
    log,              \* the source raft log, record n at sequence number n
    sourceMode,       \* how the source answers readLog: "exact" or "fromFirst"
    zkInit,           \* Coordinator nodes <zkBasePath>/init/*
    zkLogOffset,      \* Coordinator node pathToLogOffset
    pc,               \* position of the reader
    batchInProgress,  \* IngestionReader._batchInProgress
    logOffset,        \* LogReader.logOffset (in memory)
    raftId,           \* IngestionReader.raftId
    batchState,       \* the batchState object of the batch in flight
    resLog,           \* IngestionProducer.resLog
    published,        \* batches the bus producer accepted, in order
    sentSeqs,         \* sequence numbers of the records of accepted batches
    readByTail,       \* sequence numbers delivered by a tail stream
    inFlight,         \* batch cycles entered whose callback has not run
    lastOutcome,      \* what the last processLogEntries callback got
    atStart,          \* progress as it was when the batch in flight started
    lastFailed,       \* the last batch of this reader that failed in publish
    snapshotCseq,     \* the source's cseq when the last snapshot was started
    offset0,          \* the logOffset the first reader of the run started from
    restarted,        \* whether the process has been restarted
    originalCseq,     \* the source's cseq when the bucket's first snapshot started
    snapshotResults,  \* what each direct call of snapshot() called back with
    zkOffsets,        \* Coordinator nodes <zkPath>/<topic>/<partition>/...
    checkCall,        \* the last check of KafkaBacklogMetrics that was called
    checkOutcome,     \* what that check called back with
    filterInput,      \* the record or entries last handed to the reader's entry code
    filterCalls,      \* the ext.filter calls that hand-over made, in order
    raftLogStream,    \* the streams of the getRaftLog call a reader listens to
    bucketdConfig,    \* IngestionReader.bucketdConfig
    iProducer,        \* the config IngestionReader._iProducer was built with
    lastCall,         \* the last setup() or refresh() call and what it did
    zkOtherLogOffset, \* Coordinator node logOffset under the other raft session's logId
    kafkaOffsets,     \* high watermark and consumer position of each partition
    zkPublished,      \* Coordinator offset nodes of each partition (topic, consumers/G, snapshots/S)
    backlogRun,       \* the publishConsumerBacklog or snapshotTopicOffsets call in progress
    readers,          \* the readers of two sources: config, raftId, logOffset
    zkInitTree,       \* isStatusComplete nodes of the Coordinator, by path
    zkLogOffsetTree,  \* logOffset nodes of the Coordinator, by path
    initRun           \* the _readInitState, _writeInitState or save step in progress

vars == << log, sourceMode, zkInit, zkLogOffset, pc, batchInProgress, logOffset,
           raftId, batchState, resLog, published, sentSeqs, readByTail,
           inFlight, lastOutcome, atStart, lastFailed, snapshotCseq,
           offset0, restarted, originalCseq, snapshotResults,
           zkOffsets, checkCall, checkOutcome,
           filterInput, filterCalls,
           raftLogStream,
           bucketdConfig, iProducer, lastCall, zkOtherLogOffset,
           kafkaOffsets, zkPublished, backlogRun,
           readers, zkInitTree, zkLogOffsetTree,
           initRun >>

envVars == << log, sourceMode >>
zkVars == << zkInit, zkLogOffset >>
metricsVars == << zkOffsets, checkCall, checkOutcome >>
ghostVars == << published, sentSeqs, readByTail, snapshotCseq, offset0, restarted,
               originalCseq, snapshotResults >>
entryVars == << filterInput, filterCalls >>
streamVars == << raftLogStream >>
configVars == << bucketdConfig, iProducer, lastCall, zkOtherLogOffset >>
backlogVars == << kafkaOffsets, zkPublished, backlogRun >>
pathVars == << readers, zkInitTree, zkLogOffsetTree >>
initRunVars == << initRun >>

\* ------------------------------------------------------------ init state
\* IngestionReader.getInitIngestionNodes
InitIngestionNodes == <<"isStatusComplete", "versionMarker", "keyMarker">>

NoInitNodes == [n \in {"isStatusComplete", "versionMarker", "keyMarker"} |-> NoNode]

\* the nodes as _writeInitState leaves them when a snapshot has completed
CompletedInitNodes ==
    [isStatusComplete |-> "true", versionMarker |-> "null", keyMarker |-> "null"]

NoBatch ==
    [ startSeq |-> UndefinedNum, limit |-> UndefinedNum,
      infoStart |-> UndefinedNum, stream |-> <<>>, delivered |-> 0,
      nbLogRecordsRead |-> 0, nbLogEntriesRead |-> 0,
      entriesToPublish |-> <<>>, publishedEntries |-> 0,
      nextLogOffset |-> UndefinedNum, initState |-> Undefined ]

NoProgress == [logOffset |-> UndefinedNum, zkLogOffset |-> UndefinedNum, zkInit |-> NoInitNodes]

NoFailed == [startSeq |-> UndefinedNum, entries |-> <<>>, age |-> 0]

\* ------------------------------------------------- backlog metrics values
\* an offset node that does not exist (getData answers NO_NODE)
NoNodeOffset == 0 - 3
Null == "null"

\* the partitions of the topic, as the Coordinator names their nodes
PartitionNames == [i \in 1..MaxPartitions |-> ToString(i - 1)]

\* Number.parseInt(partition, 10) of a node name
ParseInt(name) == CHOOSE n \in 0..MaxPartitions : ToString(n) = name

\* the high watermark of a partition when its offsets were published
Watermark(partition) == 100 * (partition + 1)

\* the consumer group offsets published under <partition>/consumers, in the
\* order getChildren lists the labels
ConsumerListings ==
    { <<>>,
      << [label |-> "G", offset |-> 90] >>,
      << [label |-> "G", offset |-> 100] >>,
      << [label |-> "G", offset |-> 199] >>,
      << [label |-> "H", offset |-> 90] >>,
      << [label |-> "G", offset |-> 90], [label |-> "H", offset |-> 90] >>,
      << [label |-> "H", offset |-> 90], [label |-> "G", offset |-> 90] >>,
      << [label |-> "G", offset |-> 199], [label |-> "H", offset |-> 90] >> }

\* which of the topic node and the snapshot node of a partition exist
PublishedNodes == { <<TRUE, TRUE>>, <<TRUE, FALSE>>, <<FALSE, TRUE>> }

PartitionNodes(partition) ==
    { [ partition |-> ToString(partition),
        topic |-> IF nodes[1] THEN Watermark(partition) ELSE NoNodeOffset,
        snapshot |-> IF nodes[2] THEN Watermark(partition) ELSE NoNodeOffset,
        consumers |-> c ] : nodes \in PublishedNodes, c \in ConsumerListings }

\* the orders in which getChildren may list the partitions
PartitionListings ==
    { PartitionNames,
      [i \in 1..MaxPartitions |-> PartitionNames[MaxPartitions + 1 - i]] }

\* the node <zkPath>/<topic> does not exist
NoTopicNode == [exists |-> FALSE, partitions |-> <<>>]

ZkOffsetTrees ==
    {NoTopicNode} \cup
    { [exists |-> TRUE, partitions |-> parts] :
        parts \in { ps \in [1..MaxPartitions ->
                              UNION { PartitionNodes(n) : n \in 0..(MaxPartitions - 1) }] :
                     \E l \in PartitionListings :
                        \A i \in 1..MaxPartitions : ps[i].partition = l[i] } }

NoCall == [op |-> "none", groupId |-> Null, maxLag |-> 0, snapshotName |-> Null]

NoCheckInfo ==
    [kind |-> "none", partition |-> 0 - 1, groupId |-> Null,
     consumerOffset |-> 0 - 1, targetOffset |-> 0 - 1, lag |-> 0, maxLag |-> 0]

MetricsIdle ==
    /\ zkOffsets = NoTopicNode
    /\ checkCall = NoCall
    /\ checkOutcome = NoCheckInfo

\* no record or entry list has been handed to the entry code
NoFilterInput == [phase |-> "none", db |-> UndefinedStr, entries |-> <<>>]

EntryIdle ==
    /\ filterInput = NoFilterInput
    /\ filterCalls = <<>>

\* no getRaftLog call has been made: no request, no streams
NoRaftLogStream ==
    [n |-> 0, called |-> FALSE, headerDone |-> FALSE, emitted |-> 0,
     readable |-> 0, writable |-> 0, paused |-> FALSE, received |-> <<>>,
     endSeen |-> FALSE]

StreamIdle == raftLogStream = NoRaftLogStream

\* the source configuration a reader is constructed with; locationType is
\* one of the fields refresh does not compare
NoAuth == [present |-> FALSE, accessKey |-> Undefined, secretKey |-> Undefined]

InitialConfig ==
    [auth |-> [present |-> TRUE, accessKey |-> "ak1", secretKey |-> "sk1"],
     host |-> "hostA", port |-> "8000", https |-> "false",
     locationType |-> "location1"]

NoProducer == [InitialConfig EXCEPT !.host = "none"]

NoConfigCall ==
    [op |-> "none", sourceInfo |-> InitialConfig, rebuilt |-> FALSE,
     outcome |-> "none"]

ConfigIdle ==
    /\ bucketdConfig = InitialConfig
    /\ iProducer = NoProducer
    /\ lastCall = NoConfigCall
    /\ zkOtherLogOffset = UndefinedNum

\* the partitions of the topic whose offsets are published
TopicPartitions == {0, 1}

NoTask ==
    [stage |-> "none", consumerOffset |-> UndefinedNum,
     topicOffset |-> UndefinedNum, pending |-> {}]

\* no publishConsumerBacklog or snapshotTopicOffsets call has been made
NoBacklogRun ==
    [op |-> "none", tasks |-> [p \in TopicPartitions |-> NoTask],
     hwAtStart |-> [p \in TopicPartitions |-> 0], cbCount |-> 0,
     outcome |-> "none"]

\* an earlier publication stored offset 0 for the topic and for group G of
\* every partition; since then one message was produced to each partition
\* and consumed, except that the consumer may hold no position for a partition
KafkaStarts ==
    { [hw |-> [p \in TopicPartitions |-> 1], position |-> pos] :
         pos \in [TopicPartitions -> {UndefinedNum, 1}] }

ZkPublishedStart ==
    [p \in TopicPartitions |->
        [topic |-> 0, consumers |-> 0, snapshots |-> NoNodeOffset]]

BacklogIdle ==
    /\ kafkaOffsets = [hw |-> [p \in TopicPartitions |-> 1],
                       position |-> [p \in TopicPartitions |-> 1]]
    /\ zkPublished = ZkPublishedStart
    /\ backlogRun = NoBacklogRun

\* extensions.ingestion.zookeeperPath and the names of the sources
IngestionPath == <<"/ingestion">>
SourceNames == { TargetZenkoBucket, <<"zenkobucket2">> }

\* the constructor's this.zkBasePath and this.bucketInitPath
zkBasePath(name) == IngestionPath \o <<"/">> \o name
bucketInitPath(name) == zkBasePath(name) \o <<"/init">>

\* this.pathToLogOffset as setup assigns it for a raft id
LogOffsetPath(name, id) ==
    zkBasePath(name) \o <<"/logState/", "raft_", id, "/logOffset">>

InitPaths == { bucketInitPath(n) \o <<"/isStatusComplete">> : n \in SourceNames }
LogOffsetPaths == { LogOffsetPath(n, id) : n \in SourceNames, id \in {SourceRaftId, OtherRaftId} }

\* a reader as its constructor leaves it, for a source of the configuration
\* whose bucket the source cluster keeps on the given raft session
NewReader(name, bucket, session) ==
    [name |-> name, bucket |-> bucket, session |-> session,
     raftId |-> NullNum, logOffset |-> UndefinedNum]

NoTreeNode == [data |-> NoNodeOffset, by |-> {}]

PathIdle ==
    /\ readers = << NewReader(TargetZenkoBucket, SourceBucket, SourceRaftId),
                    NewReader(TargetZenkoBucket, OtherBucket, SourceRaftId) >>
    /\ zkInitTree = [p \in InitPaths |-> NoTreeNode]
    /\ zkLogOffsetTree = [p \in LogOffsetPaths |-> NoTreeNode]

\* JavaScript values of the init state: null, undefined, a boolean, a string
NullVal == [kind |-> "null", text |-> ""]
UndefinedVal == [kind |-> "undefined", text |-> ""]
BoolVal(b) == [kind |-> "boolean", text |-> IF b THEN "true" ELSE "false"]
StrVal(t) == [kind |-> "string", text |-> t]

\* no initState: what a batch of the tail phase carries
NoInitState ==
    [present |-> FALSE, isStatusComplete |-> UndefinedVal,
     versionMarker |-> UndefinedVal, keyMarker |-> UndefinedVal,
     cseq |-> UndefinedNum]

NoInitValue ==
    [isStatusComplete |-> FALSE, versionMarker |-> UndefinedVal,
     keyMarker |-> UndefinedVal]

NoInitRun ==
    [op |-> "none", input |-> NoInitState, before |-> NoInitNodes,
     pending |-> {}, data |-> NoInitValue, step |-> 0, outcome |-> "none",
     value |-> NoInitValue, written |-> NoInitState]

InitRunIdle == initRun = NoInitRun

\* the reader and its producer as their constructors leave them
ReaderInit ==
    /\ log = <<>>
    /\ sourceMode \in {"exact", "fromFirst"}
    /\ zkInit \in {NoInitNodes, CompletedInitNodes}
    /\ zkLogOffset \in {UndefinedNum, InitialLogOffset, InitialLogOffset + MaxRead}
    /\ pc = "uninit"
    /\ batchInProgress = FALSE
    /\ logOffset = UndefinedNum
    /\ raftId = NullNum
    /\ batchState = NoBatch
    /\ resLog = <<>>
    /\ published = <<>>
    /\ sentSeqs = {}
    /\ readByTail = {}
    /\ inFlight = 0
    /\ lastOutcome = "none"
    /\ atStart = NoProgress
    /\ lastFailed = NoFailed
    /\ snapshotCseq = UndefinedNum
    /\ offset0 = IF zkLogOffset = UndefinedNum THEN InitialLogOffset
                 ELSE zkLogOffset
    /\ restarted = FALSE
    /\ originalCseq = UndefinedNum
    /\ snapshotResults = <<>>

Init ==
    /\ ReaderInit
    /\ MetricsIdle
    /\ EntryIdle
    /\ StreamIdle
    /\ ConfigIdle
    /\ PathIdle
    /\ InitRunIdle
    /\ BacklogIdle

\* ------------------------------------------------------ pure helper code
RECURSIVE SplitHead(_, _)
\* key.split(sep)[0]
SplitHead(key, sep) ==
    IF key = <<>> \/ Head(key) = sep
    THEN <<>>
    ELSE <<Head(key)>> \o SplitHead(Tail(key), sep)

Field(obj, name) == IF name \in DOMAIN obj THEN obj[name] ELSE UndefinedStr

Falsy(str) == str = UndefinedStr \/ str = <<>>

\* IngestionReader._processLogEntry: the events handed to extension.filter
\* for one entry of one record (none when the entry is dropped).
ProcessLogEntry(record, entry) ==
    LET recDb == Field(record, "db") IN
    IF entry.key = UndefinedStr /\ entry.type = Undefined
    THEN <<>>
    ELSE IF Falsy(recDb)
    THEN << [type |-> entry.type, bucket |-> Field(entry, "bucket"),
             key |-> entry.key, value |-> entry.value] >>
    ELSE LET key == IF recDb = UsersBucket
                    THEN SplitHead(entry.key, "..|..") \o <<"..|..">> \o TargetZenkoBucket
                    ELSE IF recDb = MetastoreBucket
                    THEN SplitHead(entry.key, "/") \o <<"/">> \o TargetZenkoBucket
                    ELSE IF recDb = entry.key THEN TargetZenkoBucket
                    ELSE entry.key
             db == IF recDb = UsersBucket \/ recDb = MetastoreBucket
                   THEN recDb
                   ELSE TargetZenkoBucket
         IN << [type |-> entry.type, bucket |-> db, key |-> key,
                value |-> entry.value] >>

\* The extension's filter stages one bus message per event it is given
\* (QueuePopulatorExtension.publish, as the test double does it): the list
\* for a target exists only once something was pushed to it.
ExtensionFilter(staged, events) == staged \o events

RECURSIVE ProcessEntries(_, _)
\* the entries of a record handled last to first
ProcessEntries_LastFirst(record, entries) ==
    IF entries = <<>>
    THEN <<>>
    ELSE ProcessEntries(record, Tail(entries))
         \o ProcessLogEntry(record, Head(entries))

\* record.entries.forEach(...) of the tail data listener
ProcessEntries(record, entries) ==
    IF entries = <<>>
    THEN <<>>
    ELSE ProcessLogEntry(record, Head(entries))
         \o ProcessEntries(record, Tail(entries))

\* the tail data listener passes an entry on only for the source bucket
TailRecordEvents(record) ==
    IF record.db = SourceBucket
    THEN ProcessEntries(record, record.entries)
    ELSE <<>>

\* a reader that never takes the stored flag for complete
IsStatusComplete_Never(d) == FALSE

\* _readInitState: isStatusComplete === 'true'
IsStatusComplete(d) == d = "true"

\* _readInitState: a missing node is created by mkdirp, without data
MkdirpNodes(nodes) ==
    [n \in DOMAIN nodes |-> IF nodes[n] = NoNode THEN EmptyNode ELSE nodes[n]]

\* the staged offset skipping one record
NextLogOffset_OffByOne(start, nbRecords, nbEntries) ==
    JsNum(start) + nbRecords + 1

\* the staged offset counting entries where records are meant
NextLogOffset_CountsEntries(start, nbRecords, nbEntries) ==
    JsNum(start) + nbEntries

\* _processPublishEntries: the offset staged by a tail batch
NextLogOffset(start, nbRecords, nbEntries) == JsNum(start) + nbRecords

\* logOffset assigned without the comparison
NewLogOffset_Unguarded(next, cur) == next

\* _processSaveLogOffset: this.logOffset after the comparison of line 443
NewLogOffset(next, cur) == IF next > cur THEN next ELSE cur

\* _processSaveLogOffset: whether _writeLogOffset is called
WritesLogOffset(next, cur) == next # UndefinedNum /\ next # cur

\* processLogEntries not raising the flag
BatchFlagOnEntry_Unset == FALSE

\* processLogEntries: the value _batchInProgress takes on entry
BatchFlagOnEntry == TRUE

\* the send callback dropping its error
AfterSend_IgnoresError(err) == "save"

\* _processPublishEntries: where the waterfall goes after producer.send
AfterSend(err) == IF err THEN "fail" ELSE "save"

\* IngestionReader.isBatchInProgress
isBatchInProgress == batchInProgress

\* the scheduler starts a batch only on a reader that is idle
SchedulerIdle == ~isBatchInProgress

\* ------------------------------------------------------------ the source
\* readLog(begin, limit): the first sequence number of the answer
SourceStart(begin) == IF sourceMode = "fromFirst" THEN 1 ELSE begin

SourceHas(begin) == SourceStart(begin) <= Len(log)

SourceWindow(begin, limit) ==
    SubSeq(log, SourceStart(begin),
           Min(Len(log), SourceStart(begin) + limit - 1))

TransformAll(records) == [i \in 1..Len(records) |-> ListRecordTransform(records[i])]

RECURSIVE ApplyEntries(_, _)
ApplyEntries(keys, entries) ==
    IF entries = <<>>
    THEN keys
    ELSE ApplyEntries(IF DefaultType(Head(entries).type) = "del"
                      THEN keys \ {Head(entries).key}
                      ELSE keys \cup {Head(entries).key},
                      Tail(entries))

RECURSIVE BucketKeys(_, _)
\* the keys SourceBucket holds after the mutations of records
BucketKeys(keys, records) ==
    IF records = <<>>
    THEN keys
    ELSE BucketKeys(IF Head(records).db = SourceBucket
                    THEN ApplyEntries(keys, Head(records).entries)
                    ELSE keys,
                    Tail(records))

\* getObjectList: the bucket's keys in listing order
ObjectList == SelectSeq(KeyOrder, LAMBDA k : k \in BucketKeys({}, log))

\* JSON.stringify: the serialised text of a value, never the value itself
\* (isText is false for undefined, which JSON.stringify answers with undefined)
JSONStringify(v) == [json |-> v, isText |-> v # Undefined]

\* RaftLogEntry.createPutEntry
createPutEntry(objectMd, bucketPrefix) ==
    [type |-> "put",
     bucket |-> bucketPrefix \o <<"-">> \o objectMd.bucketName,
     key |-> objectMd.objectKey,
     value |-> JSONStringify(objectMd.res)]

\* the orders in which n concurrent requests can complete
CompletionOrders(n) ==
    { o \in [1..n -> 1..n] : \A i, j \in 1..n : o[i] = o[j] => i = j }

\* results collected in the order the requests completed
MapLimit_CompletionOrder(fetched, order) ==
    [i \in 1..Len(order) |-> fetched[order[i]]]

RECURSIVE MapLimitFill(_, _, _)
MapLimitFill(results, fetched, order) ==
    IF order = <<>>
    THEN results
    ELSE MapLimitFill([results EXCEPT ![Head(order)] = fetched[Head(order)]],
                      fetched, Tail(order))

\* async.mapLimit: results[index] is assigned when the request for index
\* completes, whatever the order of completion
MapLimit(fetched, order) ==
    MapLimitFill([i \in 1..Len(fetched) |-> Undefined], fetched, order)

\* _getBucketObjectsMetadata: what getObjectMetadata answers for each object;
\* an error of a request is logged and the request's data, which is then
\* undefined, is handed on like any other
ObjectMDs(objects, failed) ==
    [i \in 1..Len(objects) |->
        [res |-> IF objects[i] \in failed THEN Undefined ELSE "md",
         objectKey |-> objects[i], bucketName |-> SourceBucket]]

\* _getBucketObjectsMetadata + _createAndPushEntry for one listing, the
\* metadata requests completing in the given order, those for the objects
\* in failed with an error
SnapshotEntries(objects, order, failed) ==
    LET objectMDs == MapLimit(ObjectMDs(objects, failed), order) IN
    [i \in 1..Len(objectMDs) |->
        createPutEntry(objectMDs[i], TargetZenkoBucket)]

\* this.resLog after one run of snapshot(): the entries are pushed on the
\* array the producer was constructed with
SnapshotResLog(before, objects, order, failed) ==
    before \o SnapshotEntries(objects, order, failed)

\* --------------------------------------------------------------- actions
Progress == [logOffset |-> logOffset, zkLogOffset |-> zkLogOffset, zkInit |-> zkInit]

\* the callback of processLogEntries runs: lines 208-233
BatchDone(outcome) ==
    /\ batchInProgress' = FALSE
    /\ inFlight' = inFlight - 1
    /\ lastOutcome' = outcome
    /\ pc' = "idle"

\* an exception leaves the waterfall: its callback will never run
BatchThrows ==
    /\ pc' = "thrown"
    /\ UNCHANGED << batchInProgress, inFlight, lastOutcome >>

BatchGoes(to) ==
    /\ pc' = to
    /\ UNCHANGED << batchInProgress, inFlight, lastOutcome >>

\* IngestionReader.setup, then LogReader.setup which loads logOffset from the
\* Coordinator, creating the node at the initial offset when it is missing
setup ==
    /\ pc = "uninit"
    /\ raftId' = SourceRaftId
    /\ zkLogOffset' = IF zkLogOffset = UndefinedNum THEN InitialLogOffset
                      ELSE zkLogOffset
    /\ logOffset' = zkLogOffset'
    /\ iProducer' = bucketdConfig
    /\ pc' = "idle"
    /\ UNCHANGED << envVars, metricsVars, initRunVars, pathVars, backlogVars,
                    bucketdConfig, lastCall, zkOtherLogOffset, streamVars,
                    entryVars, zkInit, batchInProgress, batchState, resLog,
                    ghostVars, inFlight, lastOutcome, atStart, lastFailed >>

\* a scheduler tick on this reader: processLogEntries up to the first
\* suspension point (the getData calls of _readInitState)
processLogEntries ==
    /\ pc # "uninit"
    /\ SchedulerIdle
    /\ Len(published) < MaxPublished
    /\ batchInProgress' = BatchFlagOnEntry
    /\ inFlight' = inFlight + 1
    /\ batchState' = [NoBatch EXCEPT !.startSeq = logOffset, !.limit = MaxRead]
    /\ atStart' = Progress
    /\ lastOutcome' = "pending"
    /\ lastFailed' = IF lastFailed.startSeq # UndefinedNum /\ lastFailed.age = 0
                     THEN [lastFailed EXCEPT !.age = 1]
                     ELSE NoFailed
    /\ pc' = "readInit"
    /\ UNCHANGED << envVars, metricsVars, initRunVars, pathVars, backlogVars,
                    configVars, streamVars, entryVars, zkVars, logOffset,
                    raftId, resLog, ghostVars >>

\* _readInitState answers; the second step of _processReadRecords picks the
\* tail producer or the snapshot producer and issues the request
readInitState ==
    /\ pc = "readInit"
    /\ zkInit' = MkdirpNodes(zkInit)
    /\ IF IsStatusComplete(zkInit.isStatusComplete)
       THEN /\ BatchGoes("getRaftLog")
            /\ UNCHANGED << snapshotCseq, originalCseq >>
       ELSE /\ BatchGoes("snapshot")
            /\ snapshotCseq' = Len(log) + 1
            /\ originalCseq' = IF originalCseq = UndefinedNum
                               THEN Len(log) + 1
                               ELSE originalCseq
    /\ UNCHANGED << envVars, metricsVars, initRunVars, pathVars, backlogVars,
                    configVars, streamVars, entryVars, zkLogOffset, logOffset,
                    raftId, batchState, resLog, published, sentSeqs,
                    readByTail, offset0, restarted, snapshotResults, atStart,
                    lastFailed >>

\* a getData of _readInitState fails with an error other than NO_NODE; the
\* requests for the other nodes run in parallel, and those that answer
\* NO_NODE create their node all the same
readInitStateFails ==
    /\ pc = "readInit"
    /\ \E failing \in DOMAIN zkInit :
       \E answered \in SUBSET (DOMAIN zkInit \ {failing}) :
          zkInit' = [n \in DOMAIN zkInit |->
                       IF n \in answered /\ zkInit[n] = NoNode
                       THEN EmptyNode ELSE zkInit[n]]
    /\ BatchDone("error")
    /\ UNCHANGED << envVars, metricsVars, initRunVars, pathVars, backlogVars,
                    configVars, streamVars, entryVars, zkLogOffset, logOffset,
                    raftId, batchState, resLog, ghostVars, atStart,
                    lastFailed >>

\* getRaftLog: the header of the answer is parsed; _processPrepareEntries
\* attaches its listeners to the stream in the same turn
getRaftLogHeader ==
    /\ pc = "getRaftLog"
    /\ SourceHas(batchState.startSeq)
    /\ batchState' =
         [batchState EXCEPT
            !.infoStart = SourceStart(batchState.startSeq),
            !.stream = TransformAll(SourceWindow(batchState.startSeq,
                                                 batchState.limit))]
    /\ BatchGoes("prepare")
    /\ UNCHANGED << envVars, metricsVars, initRunVars, pathVars, backlogVars,
                    configVars, streamVars, entryVars, zkVars, logOffset,
                    raftId, resLog, ghostVars, atStart, lastFailed >>

\* getRaftLog: the source answers 404 (any time) or 416 (nothing to read);
\* the result { info: { start: null, end: null } } has no log, so
\* _processPrepareEntries is skipped, and _processPublishEntries reads
\* .length of the list of a target nothing was staged for
getRaftLogNotFound ==
    /\ pc = "getRaftLog"
    /\ \E status \in {404, 416} :
          status = 416 => ~SourceHas(batchState.startSeq)
    /\ batchState' =
         [batchState EXCEPT
            !.infoStart = NullNum,
            !.nextLogOffset = NextLogOffset(NullNum, 0, 0)]
    /\ BatchThrows
    /\ UNCHANGED << envVars, metricsVars, initRunVars, pathVars, backlogVars,
                    configVars, streamVars, entryVars, zkVars, logOffset,
                    raftId, resLog, ghostVars, atStart, lastFailed >>

\* getRaftLog: another transport error before the header: InternalError
getRaftLogFails ==
    /\ pc = "getRaftLog"
    /\ BatchDone("error")
    /\ UNCHANGED << envVars, metricsVars, initRunVars, pathVars, backlogVars,
                    configVars, streamVars, entryVars, zkVars, logOffset,
                    raftId, batchState, resLog, ghostVars, atStart, lastFailed
                    >>

\* IngestionProducer.snapshot(bucketName, done) is called with three
\* arguments, so its done is the init state object. The listing and the
\* metadata are fetched and pushed on resLog; done(err, resLog) then throws,
\* and the callback the reader passed is never run.
snapshot ==
    /\ pc = "snapshot"
    /\ \E order \in CompletionOrders(Len(ObjectList)),
          failed \in SUBSET BucketKeys({}, log) :
          resLog' = SnapshotResLog(resLog, ObjectList, order, failed)
    /\ BatchThrows
    /\ UNCHANGED << envVars, metricsVars, initRunVars, pathVars, backlogVars,
                    configVars, streamVars, entryVars, zkVars, logOffset,
                    raftId, batchState, ghostVars, atStart, lastFailed >>

\* logStats.nbLogRecordsRead += 1 of the tail data listener
CountRecord(n) == n + 1

\* entries counted only in records of the source bucket
CountEntries_SourceBucketOnly(n, record) ==
    IF record.db = SourceBucket THEN n + Len(record.entries) ELSE n

\* record.entries.forEach: nbLogEntriesRead += 1 for every entry, before the
\* test of record.db
CountEntries(n, record) == n + Len(record.entries)

\* the data listener of _processPrepareEntries gets the next record
streamData ==
    /\ pc = "prepare"
    /\ batchState.stream # <<>>
    /\ LET record == Head(batchState.stream) IN
       /\ batchState' =
            [batchState EXCEPT
               !.stream = Tail(@),
               !.delivered = @ + 1,
               !.nbLogRecordsRead = CountRecord(@),
               !.nbLogEntriesRead = CountEntries(@, record),
               !.entriesToPublish = ExtensionFilter(@, TailRecordEvents(record))]
       /\ readByTail' = readByTail \cup
                          {batchState.infoStart + batchState.delivered}
    /\ UNCHANGED << envVars, metricsVars, initRunVars, pathVars, backlogVars,
                    configVars, streamVars, entryVars, zkVars, pc,
                    batchInProgress, logOffset, raftId, resLog, published,
                    sentSeqs, snapshotCseq, offset0, restarted, originalCseq,
                    snapshotResults, inFlight, lastOutcome, atStart, lastFailed
                    >>

\* the end listener runs; _processPublishEntries stages nextLogOffset and
\* calls producer.send, or throws on the missing list
streamEnd ==
    /\ pc = "prepare"
    /\ batchState.stream = <<>>
    /\ batchState' =
         [batchState EXCEPT
            !.nextLogOffset = NextLogOffset(batchState.infoStart,
                                            batchState.nbLogRecordsRead,
                                            batchState.nbLogEntriesRead)]
    /\ IF batchState.entriesToPublish = <<>>
       THEN BatchThrows
       ELSE BatchGoes("send")
    /\ UNCHANGED << envVars, metricsVars, initRunVars, pathVars, backlogVars,
                    configVars, streamVars, entryVars, zkVars, logOffset,
                    raftId, resLog, ghostVars, atStart, lastFailed >>

\* the response stream fails after the header: getRaftLog's own listener
\* re-emits the error on recordStream, whose error listeners the header
\* handler removed, so the emit throws before the reader's listener runs
streamError ==
    /\ pc = "prepare"
    /\ BatchThrows
    /\ UNCHANGED << envVars, metricsVars, initRunVars, pathVars, backlogVars,
                    configVars, streamVars, entryVars, zkVars, logOffset,
                    raftId, batchState, resLog, ghostVars, atStart, lastFailed
                    >>

\* the sequence numbers of the records the batch in flight was delivered
BatchSeqs ==
    { batchState.infoStart + i : i \in 0..(batchState.delivered - 1) }

\* producer.send calls back with an error
producerSendFails ==
    /\ pc = "send"
    /\ IF AfterSend(TRUE) = "save"
       THEN BatchGoes("save")
       ELSE BatchDone("error")
    /\ lastFailed' = [startSeq |-> batchState.startSeq,
                      entries |-> batchState.entriesToPublish, age |-> 0]
    /\ UNCHANGED << envVars, metricsVars, initRunVars, pathVars, backlogVars,
                    configVars, streamVars, entryVars, zkVars, logOffset,
                    raftId, batchState, resLog, ghostVars, atStart >>

\* producer.send calls back without error
producerSendOk ==
    /\ pc = "send"
    /\ IF AfterSend(FALSE) = "save"
       THEN BatchGoes("save")
       ELSE BatchDone("error")
    /\ batchState' = [batchState EXCEPT
                        !.publishedEntries = Len(batchState.entriesToPublish)]
    /\ published' = Append(published, batchState.entriesToPublish)
    /\ sentSeqs' = sentSeqs \cup BatchSeqs
    /\ UNCHANGED << envVars, metricsVars, initRunVars, pathVars, backlogVars,
                    configVars, streamVars, entryVars, zkVars, logOffset,
                    raftId, resLog, readByTail, snapshotCseq, offset0,
                    restarted, originalCseq, snapshotResults, atStart,
                    lastFailed >>

\* _processSaveLogOffset: _writeInitState has nothing to write for a batch
\* without initState; logOffset is raised and _writeLogOffset is called
processSaveLogOffset ==
    /\ pc = "save"
    /\ IF WritesLogOffset(batchState.nextLogOffset, logOffset)
       THEN /\ logOffset' = NewLogOffset(batchState.nextLogOffset, logOffset)
            /\ BatchGoes("writeLogOffset")
       ELSE /\ BatchDone("ok")
            /\ UNCHANGED logOffset
    /\ UNCHANGED << envVars, metricsVars, initRunVars, pathVars, backlogVars,
                    configVars, streamVars, entryVars, zkVars, raftId,
                    batchState, resLog, ghostVars, atStart, lastFailed >>

\* LogReader._writeLogOffset stores this.logOffset
writeLogOffset ==
    /\ pc = "writeLogOffset"
    /\ zkLogOffset' = logOffset
    /\ BatchDone("ok")
    /\ UNCHANGED << envVars, metricsVars, initRunVars, pathVars, backlogVars,
                    configVars, streamVars, entryVars, zkInit, logOffset,
                    raftId, batchState, resLog, ghostVars, atStart, lastFailed
                    >>

writeLogOffsetFails ==
    /\ pc = "writeLogOffset"
    /\ BatchDone("error")
    /\ UNCHANGED << envVars, metricsVars, initRunVars, pathVars, backlogVars,
                    configVars, streamVars, entryVars, zkVars, logOffset,
                    raftId, batchState, resLog, ghostVars, atStart, lastFailed
                    >>

\* a client of the source cluster mutates a bucket of the raft session
appendLog ==
    /\ Len(log) < MaxLog
    /\ \E r \in RecordKinds : log' = Append(log, r)
    /\ UNCHANGED << sourceMode, metricsVars, initRunVars, pathVars,
                    backlogVars, configVars, streamVars, entryVars, zkVars, pc,
                    batchInProgress, logOffset, raftId, batchState, resLog,
                    ghostVars, inFlight, lastOutcome, atStart, lastFailed >>

\* the process dies and a new one constructs the reader (constructor, 19-43)
restart ==
    /\ pc # "uninit"
    /\ restarted' = TRUE
    /\ pc' = "uninit"
    /\ batchInProgress' = FALSE
    /\ logOffset' = UndefinedNum
    /\ raftId' = NullNum
    /\ iProducer' = NoProducer
    /\ batchState' = NoBatch
    /\ resLog' = <<>>
    /\ inFlight' = 0
    /\ lastOutcome' = "none"
    /\ atStart' = NoProgress
    /\ lastFailed' = NoFailed
    /\ UNCHANGED << envVars, metricsVars, initRunVars, pathVars, backlogVars,
                    bucketdConfig, lastCall, zkOtherLogOffset, streamVars,
                    entryVars, zkVars, published, sentSeqs, readByTail,
                    snapshotCseq, offset0, originalCseq, snapshotResults >>

\* IngestionProducer.snapshot(bucketName, done) called with a callback, as
\* its signature asks: done gets this.resLog
callSnapshot ==
    /\ Len(snapshotResults) < MaxSnapshots
    /\ \E order \in CompletionOrders(Len(ObjectList)),
          failed \in SUBSET BucketKeys({}, log) :
          /\ resLog' = SnapshotResLog(resLog, ObjectList, order, failed)
          /\ snapshotResults' =
                Append(snapshotResults,
                       [objects |-> ObjectList, failed |-> failed,
                        res |-> resLog'])
    /\ UNCHANGED << envVars, metricsVars, initRunVars, pathVars, backlogVars,
                    configVars, streamVars, entryVars, zkVars, pc,
                    batchInProgress, logOffset, raftId, batchState, published,
                    sentSeqs, readByTail, snapshotCseq, offset0, restarted,
                    originalCseq, inFlight, lastOutcome, atStart, lastFailed >>

ReaderStep ==
    \/ setup
    \/ processLogEntries
    \/ readInitState
    \/ readInitStateFails
    \/ getRaftLogHeader
    \/ getRaftLogNotFound
    \/ getRaftLogFails
    \/ snapshot
    \/ streamData
    \/ streamEnd
    \/ streamError
    \/ producerSendOk
    \/ producerSendFails
    \/ processSaveLogOffset
    \/ writeLogOffset
    \/ writeLogOffsetFails

Next ==
    \/ ReaderStep
    \/ appendLog
    \/ restart

Spec == Init /\ [][Next]_vars

\* every pending callback is eventually delivered and the scheduler keeps
\* ticking; source mutations are not forced, and the process does not crash
\* for ever
FairSpec == Spec /\ WF_vars(ReaderStep) /\ <>[][~restart]_vars

\* -------------------------------------------------------- backlog metrics
\* _readOffset of <partition>/consumers/<label>
ReadConsumerOffset(node, label) ==
    IF \E i \in 1..Len(node.consumers) : node.consumers[i].label = label
    THEN LET i == CHOOSE k \in 1..Len(node.consumers) :
                     node.consumers[k].label = label
         IN node.consumers[i].offset
    ELSE NoNodeOffset

\* first step of the waterfall: the offset of the one group, made a list of
\* one by the third step, or the offsets of all the groups
ConsumerOffsets(node, groupId) ==
    IF groupId # Null
    THEN << [label |-> groupId, offset |-> ReadConsumerOffset(node, groupId)] >>
    ELSE node.consumers

\* second step of the waterfall: the snapshot offset or the topic offset
TargetOffset(node, snapshotName) ==
    IF snapshotName # Null THEN node.snapshot ELSE node.topic

\* let lag = targetOffset - consumerOffsetInfo.offset; if (lag < 0) lag = 0
Lag(targetOffset, consumerOffset) ==
    IF targetOffset - consumerOffset < 0 THEN 0
    ELSE targetOffset - consumerOffset

Info(node, consumerOffsetInfo, targetOffset, maxLag) ==
    [kind |-> "checkInfo",
     partition |-> ParseInt(node.partition),
     groupId |-> consumerOffsetInfo.label,
     consumerOffset |-> consumerOffsetInfo.offset,
     targetOffset |-> targetOffset,
     lag |-> Lag(targetOffset, consumerOffsetInfo.offset),
     maxLag |-> maxLag]

\* checkInfo taking the info of every group that lags
KeepCheckInfo_Overwrites(checkInfo, info) ==
    IF info.lag > info.maxLag THEN info ELSE checkInfo

\* if (lag > maxLag && !checkInfo) checkInfo = info
KeepCheckInfo(checkInfo, info) ==
    IF info.lag > info.maxLag /\ checkInfo = NoCheckInfo THEN info ELSE checkInfo

RECURSIVE ForEachConsumerOffset(_, _, _, _, _)
\* consumerOffsets.forEach(...) of the third step
ForEachConsumerOffset(checkInfo, node, consumerOffsets, targetOffset, maxLag) ==
    IF consumerOffsets = <<>>
    THEN checkInfo
    ELSE ForEachConsumerOffset(
            KeepCheckInfo(checkInfo,
                          Info(node, Head(consumerOffsets), targetOffset, maxLag)),
            node, Tail(consumerOffsets), targetOffset, maxLag)

\* the waterfall run for one partition: the error it ends with (or none) and
\* the checkInfo it leaves
CheckPartition(node, groupId, maxLag, snapshotName) ==
    LET consumerOffsets == ConsumerOffsets(node, groupId)
        targetOffset == TargetOffset(node, snapshotName)
    IN IF groupId # Null /\ consumerOffsets[1].offset = NoNodeOffset
       THEN [err |-> "NoNodeError", checkInfo |-> NoCheckInfo]
       ELSE IF targetOffset = NoNodeOffset
       THEN [err |-> "NoNodeError", checkInfo |-> NoCheckInfo]
       ELSE LET checkInfo == ForEachConsumerOffset(NoCheckInfo, node,
                                 consumerOffsets, targetOffset, maxLag)
            IN [err |-> IF checkInfo # NoCheckInfo
                        THEN "CheckConditionError" ELSE "none",
                checkInfo |-> checkInfo]

Success == [NoCheckInfo EXCEPT !.kind = "success"]

ZkError == [NoCheckInfo EXCEPT !.kind = "error"]

RECURSIVE EachSeries(_, _, _, _)
\* async.eachSeries over the partitions and its final callback
EachSeries(partitions, groupId, maxLag, snapshotName) ==
    IF partitions = <<>>
    THEN Success
    ELSE LET r == CheckPartition(Head(partitions), groupId, maxLag, snapshotName)
         IN IF r.err = "CheckConditionError" THEN r.checkInfo
            ELSE IF r.err = "NoNodeError" THEN Success
            ELSE EachSeries(Tail(partitions), groupId, maxLag, snapshotName)

\* KafkaBacklogMetrics._checkConsumerOffsetsGeneric: what cb is called with
checkConsumerOffsetsGeneric(tree, groupId, maxLag, snapshotName, zkFails) ==
    IF zkFails THEN ZkError
    ELSE IF ~tree.exists THEN Success
    ELSE EachSeries(tree.partitions, groupId, maxLag, snapshotName)

GroupIds == {"G", Null}

MaxLags == {0, 5}

SnapshotName == "S"

checkConsumerLag ==
    /\ \E groupId \in GroupIds, maxLag \in MaxLags, zkFails \in BOOLEAN :
          /\ checkCall' = [op |-> "checkConsumerLag", groupId |-> groupId,
                           maxLag |-> maxLag, snapshotName |-> Null]
          /\ checkOutcome' = checkConsumerOffsetsGeneric(zkOffsets, groupId,
                                                         maxLag, Null, zkFails)
    /\ UNCHANGED << envVars, zkVars, zkOffsets, initRunVars, pathVars,
                    backlogVars, configVars, streamVars, entryVars, pc,
                    batchInProgress, logOffset, raftId, batchState, resLog,
                    ghostVars, inFlight, lastOutcome, atStart, lastFailed >>

checkConsumerProgress ==
    /\ \E groupId \in GroupIds, zkFails \in BOOLEAN :
          /\ checkCall' = [op |-> "checkConsumerProgress", groupId |-> groupId,
                           maxLag |-> 0, snapshotName |-> SnapshotName]
          /\ checkOutcome' = checkConsumerOffsetsGeneric(zkOffsets, groupId, 0,
                                                         SnapshotName, zkFails)
    /\ UNCHANGED << envVars, zkVars, zkOffsets, initRunVars, pathVars,
                    backlogVars, configVars, streamVars, entryVars, pc,
                    batchInProgress, logOffset, raftId, batchState, resLog,
                    ghostVars, inFlight, lastOutcome, atStart, lastFailed >>

\* the checks of KafkaBacklogMetrics over a Coordinator holding any of the
\* offset trees
MetricsInit ==
    /\ ReaderInit
    /\ sourceMode = "exact"
    /\ zkInit = NoInitNodes
    /\ zkLogOffset = UndefinedNum
    /\ zkOffsets \in ZkOffsetTrees
    /\ checkCall = NoCall
    /\ checkOutcome = NoCheckInfo
    /\ EntryIdle
    /\ StreamIdle
    /\ ConfigIdle
    /\ PathIdle
    /\ InitRunIdle
    /\ BacklogIdle

MetricsNext ==
    \/ checkConsumerLag
    \/ checkConsumerProgress

MetricsSpec == MetricsInit /\ [][MetricsNext]_vars

\* the Snapshot Producer alone, on a source whose bucket changes
ProducerInit ==
    /\ Init
    /\ sourceMode = "exact"
    /\ zkInit = NoInitNodes
    /\ zkLogOffset = UndefinedNum

ProducerNext ==
    \/ callSnapshot
    \/ appendLog

ProducerSpec == ProducerInit /\ [][ProducerNext]_vars

\* ------------------------------------------- the entry code on its inputs
\* this._extensions, in the order of the array
Extensions == <<"ingestion", "metrics">>

\* the calls this._extensions.forEach(ext => ext.filter(event)) makes for the
\* events of the entries handled, entry by entry
RECURSIVE FilterCalls(_)
FilterCalls(events) ==
    IF events = <<>>
    THEN <<>>
    ELSE [i \in 1..Len(Extensions) |->
             [ext |-> Extensions[i], event |-> Head(events)]]
         \o FilterCalls(Tail(events))

\* entries a raft log record can carry: type absent, put or del; key absent,
\* an object key, the name of the bucket itself, a users..bucket key, a
\* metastore key; a del has no value
EntryKeys ==
    { UndefinedStr, <<"k1">>, SourceBucket,
      <<"owner1", "..|..">> \o SourceBucket,
      <<"owner1", "/">> \o SourceBucket }

EntryKinds ==
    { [type |-> t, key |-> k,
       value |-> IF t = "del" THEN Undefined ELSE "md1"] :
         t \in {Undefined, "put", "del"}, k \in EntryKeys }

EntryLists ==
    { <<e>> : e \in EntryKinds }
       \cup { <<e1, e2>> : e1 \in EntryKinds, e2 \in EntryKinds }

\* the data listener of _processPrepareEntries on one record of the stream,
\* which ListRecordStream has handled before
tailDataListener ==
    /\ \E db \in {SourceBucket, OtherBucket, UsersBucket, MetastoreBucket},
          entries \in EntryLists :
          /\ filterInput' = [phase |-> "tail", db |-> db, entries |-> entries]
          /\ filterCalls' =
               FilterCalls(TailRecordEvents(
                   ListRecordTransform([db |-> db, entries |-> entries])))
    /\ UNCHANGED << envVars, metricsVars, initRunVars, pathVars, backlogVars,
                    configVars, streamVars, zkVars, pc, batchInProgress,
                    logOffset, raftId, batchState, resLog, ghostVars, inFlight,
                    lastOutcome, atStart, lastFailed >>

\* entries of a snapshot result: what createPutEntry builds, and entries
\* without key or without type
SnapshotEntryKinds ==
    { [type |-> t,
       bucket |-> createPutEntry([res |-> "md1", objectKey |-> k,
                                  bucketName |-> SourceBucket],
                                 TargetZenkoBucket).bucket,
       key |-> k, value |-> "md1"] :
         t \in {Undefined, "put"}, k \in {UndefinedStr, <<"k1">>, <<"k2">>} }

SnapshotEntryLists ==
    { <<e>> : e \in SnapshotEntryKinds }
       \cup { <<e1, e2>> : e1 \in SnapshotEntryKinds, e2 \in SnapshotEntryKinds }

RECURSIVE SnapshotLogEvents(_)
\* logRes.log.forEach(entry => this._processLogEntry(batchState, entry, entry))
SnapshotLogEvents(entries) ==
    IF entries = <<>>
    THEN <<>>
    ELSE ProcessLogEntry(Head(entries), Head(entries))
         \o SnapshotLogEvents(Tail(entries))

\* the snapshot branch of _processPrepareEntries on a snapshot result
snapshotLogForEach ==
    /\ \E entries \in SnapshotEntryLists :
          /\ filterInput' = [phase |-> "snapshot", db |-> UndefinedStr,
                             entries |-> entries]
          /\ filterCalls' = FilterCalls(SnapshotLogEvents(entries))
    /\ UNCHANGED << envVars, metricsVars, initRunVars, pathVars, backlogVars,
                    configVars, streamVars, zkVars, pc, batchInProgress,
                    logOffset, raftId, batchState, resLog, ghostVars, inFlight,
                    lastOutcome, atStart, lastFailed >>

EntryInit ==
    /\ Init
    /\ sourceMode = "exact"
    /\ zkInit = CompletedInitNodes
    /\ zkLogOffset = InitialLogOffset

EntryNext ==
    \/ tailDataListener
    \/ snapshotLogForEach

EntrySpec == EntryInit /\ [][EntryNext]_vars

\* ------------------------------------------- the streams of getRaftLog
\* new ListRecordStream: super({ objectMode: true }), a Transform whose
\* readable and writable sides each hold up to 16 objects
HighWaterMark == 16

\* recordStream.write(record) as jsonResponse.pipe(recordStream) calls it.
\* Nothing ever reads recordStream (the caller is handed jsonResponse), so a
\* record goes to its readable side while there is room and waits on its
\* writable side afterwards; write answers false once that side is full,
\* and the pipe then pauses jsonResponse until a drain that never comes.
RecordStreamWrite(s) ==
    IF s.readable < HighWaterMark /\ s.writable = 0
    THEN [s EXCEPT !.readable = @ + 1]
    ELSE [s EXCEPT !.writable = @ + 1,
                   !.paused = ~(s.writable + 1 < HighWaterMark)]

\* getRaftLog is called; the source answers 200 with a log of n records
getRaftLog ==
    /\ ~raftLogStream.called
    /\ \E n \in 1..MaxRecords :
          raftLogStream' = [NoRaftLogStream EXCEPT !.n = n, !.called = TRUE]
    /\ UNCHANGED << envVars, metricsVars, initRunVars, pathVars, backlogVars,
                    configVars, entryVars, zkVars, pc, batchInProgress,
                    logOffset, raftId, batchState, resLog, ghostVars, inFlight,
                    lastOutcome, atStart, lastFailed >>

\* jsonResponse emits header when the first record is parsed, before it
\* queues that record: done(null, { info, log: jsonResponse }) runs and the
\* reader attaches its data, error and end listeners in the same turn
jsonHeader ==
    /\ raftLogStream.called
    /\ ~raftLogStream.headerDone
    /\ raftLogStream' = [raftLogStream EXCEPT !.headerDone = TRUE]
    /\ UNCHANGED << envVars, metricsVars, initRunVars, pathVars, backlogVars,
                    configVars, entryVars, zkVars, pc, batchInProgress,
                    logOffset, raftId, batchState, resLog, ghostVars, inFlight,
                    lastOutcome, atStart, lastFailed >>

\* jsonResponse emits the next record: the pipe's listener, attached first,
\* writes it to recordStream, then the reader's listener receives it
jsonData ==
    /\ raftLogStream.headerDone
    /\ ~raftLogStream.paused
    /\ raftLogStream.emitted < raftLogStream.n
    /\ raftLogStream' =
         [RecordStreamWrite(raftLogStream) EXCEPT
            !.emitted = @ + 1,
            !.received = Append(@, raftLogStream.emitted + 1)]
    /\ UNCHANGED << envVars, metricsVars, initRunVars, pathVars, backlogVars,
                    configVars, entryVars, zkVars, pc, batchInProgress,
                    logOffset, raftId, batchState, resLog, ghostVars, inFlight,
                    lastOutcome, atStart, lastFailed >>

\* the response is parsed to its end: jsonResponse emits end unless paused
jsonEnd ==
    /\ raftLogStream.headerDone
    /\ ~raftLogStream.paused
    /\ raftLogStream.emitted = raftLogStream.n
    /\ ~raftLogStream.endSeen
    /\ raftLogStream' = [raftLogStream EXCEPT !.endSeen = TRUE]
    /\ UNCHANGED << envVars, metricsVars, initRunVars, pathVars, backlogVars,
                    configVars, entryVars, zkVars, pc, batchInProgress,
                    logOffset, raftId, batchState, resLog, ghostVars, inFlight,
                    lastOutcome, atStart, lastFailed >>

StreamInit ==
    /\ Init
    /\ sourceMode = "exact"
    /\ zkInit = CompletedInitNodes
    /\ zkLogOffset = InitialLogOffset

StreamNext ==
    \/ getRaftLog
    \/ jsonHeader
    \/ jsonData
    \/ jsonEnd

StreamSpec == StreamInit /\ [][StreamNext]_vars

\* the event loop runs whatever stream event is pending
StreamFairSpec == StreamSpec /\ WF_vars(StreamNext)


\* ------------------------------------------- setup() and refresh()
\* what a refresh can be given: with or without auth, either secret key,
\* either host, either location type
SourceInfos ==
    { [InitialConfig EXCEPT !.auth = a, !.host = h, !.locationType = t] :
         a \in { NoAuth,
                 [present |-> TRUE, accessKey |-> "ak1", secretKey |-> "sk1"],
                 [present |-> TRUE, accessKey |-> "ak1", secretKey |-> "sk2"] },
         h \in {"hostA", "hostB"},
         t \in {"location1", "location2"} }

\* JSON.stringify of an object: the members whose value is undefined are
\* left out, the others are written in order as "name":value
JSONStringifyMembers(members) ==
    SelectSeq(members, LAMBDA m : m[2] # Undefined)

\* IngestionReader._getEditableFields
getEditableFields(info) ==
    JSONStringifyMembers(<<
        <<"accessKey", IF info.auth.present THEN info.auth.accessKey
                       ELSE Undefined>>,
        <<"secretKey", IF info.auth.present THEN info.auth.secretKey
                       ELSE Undefined>>,
        <<"host", info.host>>,
        <<"port", info.port>>,
        <<"https", info.https>> >>)

\* const updated = bucketdConfig !== latestBucketdConfig
Updated(current, latest) ==
    getEditableFields(current) # getEditableFields(latest)

\* IngestionProducer.getRaftId at the source the producer was built for
RaftIdAt(host) == IF host = "hostA" THEN SourceRaftId ELSE OtherRaftId

\* this.logId and this.pathToLogOffset, assigned together with this.raftId
logId == IF raftId = NullNum THEN <<"null">> ELSE <<"raft_", raftId>>

pathToLogOffset ==
    IF raftId = NullNum
    THEN <<"null">>
    ELSE <<"zkBasePath", "logState">> \o logId \o <<"logOffset">>

\* IngestionReader.refresh; _setupIngestionProducer reads auth.secretKey of
\* the config just stored (a TypeError without auth) and builds the producer
\* unless the key cannot be decrypted
refresh ==
    /\ pc \in {"uninit", "idle"}
    /\ \E sourceInfo \in SourceInfos, decryptFails \in BOOLEAN :
          LET updated == Updated(bucketdConfig, sourceInfo)
              thrown == updated /\ ~sourceInfo.auth.present
              rebuilt == updated /\ ~thrown /\ ~decryptFails
          IN /\ bucketdConfig' = IF updated THEN sourceInfo ELSE bucketdConfig
             /\ iProducer' = IF rebuilt THEN sourceInfo ELSE iProducer
             /\ resLog' = IF rebuilt THEN <<>> ELSE resLog
             /\ lastCall' = [op |-> "refresh", sourceInfo |-> sourceInfo,
                             rebuilt |-> rebuilt,
                             outcome |-> IF thrown THEN "thrown"
                                         ELSE IF updated /\ decryptFails
                                         THEN "error"
                                         ELSE "ok"]
    /\ UNCHANGED << envVars, metricsVars, initRunVars, pathVars, backlogVars,
                    streamVars, entryVars, zkVars, zkOtherLogOffset, pc,
                    batchInProgress, logOffset, raftId, batchState, ghostVars,
                    inFlight, lastOutcome, atStart, lastFailed >>

\* IngestionReader.setup, first or repeated: the producer is built, the raft
\* session is asked from the source, raftId, logId and pathToLogOffset are
\* assigned, and LogReader.setup loads logOffset from the node at that path,
\* creating it at the initial offset when it is missing
setupCall ==
    /\ pc \in {"uninit", "idle"}
    /\ \E decryptFails \in BOOLEAN, getRaftIdFails \in BOOLEAN :
          LET thrown == ~bucketdConfig.auth.present
              built == ~thrown /\ ~decryptFails
              found == built /\ ~getRaftIdFails
              data == RaftIdAt(bucketdConfig.host)
              stored == IF data = SourceRaftId THEN zkLogOffset
                        ELSE zkOtherLogOffset
              loaded == IF stored = UndefinedNum THEN InitialLogOffset
                        ELSE stored
          IN /\ iProducer' = IF built THEN bucketdConfig ELSE iProducer
             /\ resLog' = IF built THEN <<>> ELSE resLog
             /\ raftId' = IF found THEN data ELSE raftId
             /\ zkLogOffset' = IF found /\ data = SourceRaftId THEN loaded
                               ELSE zkLogOffset
             /\ zkOtherLogOffset' = IF found /\ data # SourceRaftId THEN loaded
                                    ELSE zkOtherLogOffset
             /\ logOffset' = IF found THEN loaded ELSE logOffset
             /\ pc' = IF found THEN "idle" ELSE pc
             /\ lastCall' = [op |-> "setup", sourceInfo |-> bucketdConfig,
                             rebuilt |-> built,
                             outcome |-> IF thrown THEN "thrown"
                                         ELSE IF found THEN "ok" ELSE "error"]
    /\ UNCHANGED << envVars, metricsVars, initRunVars, pathVars, backlogVars,
                    streamVars, entryVars, zkInit, bucketdConfig,
                    batchInProgress, batchState, ghostVars, inFlight,
                    lastOutcome, atStart, lastFailed >>

ConfigInit ==
    /\ Init
    /\ sourceMode = "exact"
    /\ zkInit = CompletedInitNodes

ConfigNext ==
    \/ setupCall
    \/ refresh

ConfigSpec == ConfigInit /\ [][ConfigNext]_vars

\* ------------------------------------------- publishing offsets
\* the offset _publishOffset is given for a node of the partition
OffsetToPublish_ConsumerOffset(task, offsetType) == task.consumerOffset

OffsetToPublish(task, offsetType) ==
    IF offsetType = "consumers" THEN task.consumerOffset ELSE task.topicOffset

\* publishConsumerBacklog is called: consumer.position() throws, and cb is
\* called from nextTick, or it gives the positions, of which those with an
\* offset are kept; eachLimit(..., 10) starts one task per kept partition, and
\* calls back at once when there is none
publishConsumerBacklog ==
    /\ backlogRun.op = "none"
    /\ \E positionThrows \in BOOLEAN :
          LET kept == { p \in TopicPartitions :
                           kafkaOffsets.position[p] # UndefinedNum }
              ends == positionThrows \/ kept = {}
          IN backlogRun' =
               [op |-> "publish",
                tasks |-> [p \in TopicPartitions |->
                             IF positionThrows \/ p \notin kept
                             THEN NoTask
                             ELSE [NoTask EXCEPT
                                     !.stage = "query",
                                     !.consumerOffset =
                                        kafkaOffsets.position[p]]],
                hwAtStart |-> kafkaOffsets.hw,
                cbCount |-> IF ends THEN 1 ELSE 0,
                outcome |-> IF ends THEN "ok" ELSE "none"]
    /\ UNCHANGED << envVars, metricsVars, initRunVars, pathVars, configVars,
                    streamVars, entryVars, zkVars, kafkaOffsets, zkPublished,
                    pc, batchInProgress, logOffset, raftId, batchState, resLog,
                    ghostVars, inFlight, lastOutcome, atStart, lastFailed >>

\* snapshotTopicOffsets is called: getMetadata fails (cb(InternalError)),
\* or the topic is not in the metadata (cb from nextTick), or async.each
\* starts one task per partition of the topic
snapshotTopicOffsets ==
    /\ backlogRun.op = "none"
    /\ \E metadata \in {"error", "noTopic", "found"} :
          backlogRun' =
            [op |-> "snapshot",
             tasks |-> [p \in TopicPartitions |->
                          IF metadata = "found"
                          THEN [NoTask EXCEPT !.stage = "query"]
                          ELSE NoTask],
             hwAtStart |-> kafkaOffsets.hw,
             cbCount |-> IF metadata = "found" THEN 0 ELSE 1,
             outcome |-> IF metadata = "found" THEN "none"
                         ELSE IF metadata = "error" THEN "error"
                         ELSE "skipped"]
    /\ UNCHANGED << envVars, metricsVars, initRunVars, pathVars, configVars,
                    streamVars, entryVars, zkVars, kafkaOffsets, zkPublished,
                    pc, batchInProgress, logOffset, raftId, batchState, resLog,
                    ghostVars, inFlight, lastOutcome, atStart, lastFailed >>

\* the final callback of async.each / async.eachLimit: called with the first
\* error a task reports, or without error once every task has reported, and
\* never a second time
EachCallback(run, tasks, err) ==
    IF run.cbCount > 0
    THEN [run EXCEPT !.tasks = tasks]
    ELSE IF err
    THEN [run EXCEPT !.tasks = tasks, !.cbCount = 1, !.outcome = "error"]
    ELSE IF \A p \in TopicPartitions : tasks[p].stage \in {"none", "ended"}
    THEN [run EXCEPT !.tasks = tasks, !.cbCount = 1, !.outcome = "ok"]
    ELSE [run EXCEPT !.tasks = tasks]

\* the callback of _getLatestTopicOffset for a partition: an error ends the
\* task; otherwise the high watermark is kept and the writes are issued:
\* for a publication, async.parallel starts the write of consumers/<group>
\* and then the write of topic, both before any of them completes; for a
\* snapshot, the one write of snapshots/<name>
queryWatermarkOffsets ==
    /\ \E p \in TopicPartitions, fails \in BOOLEAN :
          /\ backlogRun.tasks[p].stage = "query"
          /\ backlogRun' =
               IF fails
               THEN EachCallback(backlogRun,
                        [backlogRun.tasks EXCEPT ![p].stage = "ended"], TRUE)
               ELSE EachCallback(backlogRun,
                        [backlogRun.tasks EXCEPT
                           ![p].stage = "write",
                           ![p].topicOffset = kafkaOffsets.hw[p],
                           ![p].pending =
                              IF backlogRun.op = "publish"
                              THEN {"consumers", "topic"}
                              ELSE {"snapshots"}], FALSE)
    /\ UNCHANGED << envVars, metricsVars, initRunVars, pathVars, configVars,
                    streamVars, entryVars, zkVars, kafkaOffsets, zkPublished,
                    pc, batchInProgress, logOffset, raftId, batchState, resLog,
                    ghostVars, inFlight, lastOutcome, atStart, lastFailed >>

\* a setOrCreate issued by _publishOffset completes, in any order among
\* those pending: the node holds the offset, or the write failed; the task
\* reports the first error, or success after its last write
setOrCreate ==
    /\ \E p \in TopicPartitions, fails \in BOOLEAN :
       \E offsetType \in backlogRun.tasks[p].pending :
          LET task == backlogRun.tasks[p]
              pending == task.pending \ {offsetType}
              reports == task.stage = "write" /\ (fails \/ pending = {})
              tasks == [backlogRun.tasks EXCEPT
                          ![p].pending = pending,
                          ![p].stage = IF reports THEN "ended" ELSE @]
          IN /\ zkPublished' =
                  IF fails THEN zkPublished
                  ELSE [zkPublished EXCEPT
                          ![p][offsetType] = OffsetToPublish(task, offsetType)]
             /\ backlogRun' =
                  IF reports THEN EachCallback(backlogRun, tasks, fails)
                  ELSE [backlogRun EXCEPT !.tasks = tasks]
    /\ UNCHANGED << envVars, metricsVars, initRunVars, pathVars, configVars,
                    streamVars, entryVars, zkVars, kafkaOffsets, pc,
                    batchInProgress, logOffset, raftId, batchState, resLog,
                    ghostVars, inFlight, lastOutcome, atStart, lastFailed >>

\* a producer of the topic pushes a message to a partition
produce ==
    /\ \E p \in TopicPartitions :
          /\ kafkaOffsets.hw[p] < MaxOffset
          /\ kafkaOffsets' = [kafkaOffsets EXCEPT !.hw[p] = @ + 1]
    /\ UNCHANGED << envVars, metricsVars, initRunVars, pathVars, configVars,
                    streamVars, entryVars, zkVars, zkPublished, backlogRun, pc,
                    batchInProgress, logOffset, raftId, batchState, resLog,
                    ghostVars, inFlight, lastOutcome, atStart, lastFailed >>

BacklogInit ==
    /\ ReaderInit
    /\ sourceMode = "exact"
    /\ zkInit = NoInitNodes
    /\ zkLogOffset = UndefinedNum
    /\ MetricsIdle
    /\ EntryIdle
    /\ StreamIdle
    /\ ConfigIdle
    /\ PathIdle
    /\ InitRunIdle
    /\ kafkaOffsets \in KafkaStarts
    /\ zkPublished = ZkPublishedStart
    /\ backlogRun = NoBacklogRun

BacklogNext ==
    \/ publishConsumerBacklog
    \/ snapshotTopicOffsets
    \/ queryWatermarkOffsets
    \/ setOrCreate
    \/ produce

BacklogSpec == BacklogInit /\ [][BacklogNext]_vars

\* ------------------------------------------- two readers, one Coordinator
\* the state of the single reader, which the two readers leave alone
singleReaderVars ==
    << envVars, zkVars, metricsVars, initRunVars, backlogVars, configVars,
       streamVars, entryVars, pc, batchInProgress, logOffset, raftId, batchState, resLog,
       ghostVars, inFlight, lastOutcome, atStart, lastFailed >>

\* setup of reader r: raftId is what the source answers for the reader's
\* bucket, pathToLogOffset follows from it, and LogReader.setup loads
\* logOffset from the node at that path, creating it at the initial offset
\* when it is missing
readerSetup(r) ==
    LET id == readers[r].session
        path == LogOffsetPath(readers[r].name, id)
        node == zkLogOffsetTree[path]
        stored == IF node.data = NoNodeOffset THEN InitialLogOffset
                  ELSE node.data
    IN /\ readers' = [readers EXCEPT ![r].raftId = id,
                                     ![r].logOffset = stored]
       /\ zkLogOffsetTree' =
             [zkLogOffsetTree EXCEPT
                ![path] = [data |-> stored, by |-> node.by \cup {r}]]
       /\ UNCHANGED << zkInitTree, singleReaderVars >>

\* _writeInitState of reader r for the batch that ends its snapshot:
\* setData on <bucketInitPath>/isStatusComplete
readerWriteInitState(r) ==
    LET path == bucketInitPath(readers[r].name) \o <<"/isStatusComplete">>
    IN /\ readers[r].raftId # NullNum
       /\ zkInitTree' =
             [zkInitTree EXCEPT
                ![path] = [data |-> r, by |-> zkInitTree[path].by \cup {r}]]
       /\ UNCHANGED << readers, zkLogOffsetTree, singleReaderVars >>

\* _processSaveLogOffset of reader r for a batch that read one record:
\* this.logOffset is raised and stored at pathToLogOffset
readerWriteLogOffset(r) ==
    LET path == LogOffsetPath(readers[r].name, readers[r].raftId)
    IN /\ readers[r].raftId # NullNum
       /\ readers[r].logOffset < MaxOffset
       /\ readers' = [readers EXCEPT ![r].logOffset = @ + 1]
       /\ zkLogOffsetTree' =
             [zkLogOffsetTree EXCEPT
                ![path] = [data |-> readers[r].logOffset + 1,
                           by |-> zkLogOffsetTree[path].by \cup {r}]]
       /\ UNCHANGED << zkInitTree, singleReaderVars >>

\* two sources of the configuration with different buckets, each with either
\* name, each bucket on either raft session of the source cluster
PathInit ==
    /\ ReaderInit
    /\ sourceMode = "exact"
    /\ zkInit = NoInitNodes
    /\ zkLogOffset = UndefinedNum
    /\ MetricsIdle
    /\ EntryIdle
    /\ StreamIdle
    /\ ConfigIdle
    /\ BacklogIdle
    /\ InitRunIdle
    /\ \E n1 \in SourceNames, n2 \in SourceNames,
          s1 \in {SourceRaftId, OtherRaftId},
          s2 \in {SourceRaftId, OtherRaftId} :
          readers = << NewReader(n1, SourceBucket, s1),
                       NewReader(n2, OtherBucket, s2) >>
    /\ zkInitTree = [p \in InitPaths |-> NoTreeNode]
    /\ zkLogOffsetTree = [p \in LogOffsetPaths |-> NoTreeNode]

PathNext ==
    \E r \in 1..2 :
       \/ readerSetup(r)
       \/ readerWriteInitState(r)
       \/ readerWriteLogOffset(r)

PathSpec == PathInit /\ [][PathNext]_vars

\* ------------------------------------------- the init state and its nodes
InitNodeNames == {"isStatusComplete", "versionMarker", "keyMarker"}

\* d = data && data.toString() for the data of a node that exists: a node
\* created by mkdirp holds no data
ReadData(text) == IF text = EmptyNode THEN UndefinedVal ELSE StrVal(text)

\* (initState[pathNode] || 'null').toString()
NodeText(v) ==
    IF v.kind \in {"null", "undefined"} \/ v = BoolVal(FALSE) \/ v = StrVal("")
    THEN "null"
    ELSE v.text

\* the object _readInitState calls back with, from the results of the map
InitStateOf(data) ==
    [isStatusComplete |-> data.isStatusComplete.kind = "string"
                          /\ IsStatusComplete(data.isStatusComplete.text),
     versionMarker |-> data.versionMarker,
     keyMarker |-> data.keyMarker]

\* the variables the init state code leaves alone
initRestVars ==
    << envVars, metricsVars, pathVars, backlogVars, configVars, streamVars,
       entryVars, pc, batchInProgress, raftId, batchState, resLog, ghostVars,
       inFlight, lastOutcome, atStart, lastFailed >>

\* a call can start when none is running: the previous one has called back
\* and none of its requests is outstanding
InitRunOver ==
    \/ initRun.op = "none"
    \/ initRun.outcome # "none" /\ initRun.pending = {}

\* the state the call that has just returned stored in full, if it was a
\* _writeInitState that succeeded
WrittenBy(run) ==
    IF run.op \in {"write", "save"} /\ run.outcome = "ok" /\ run.input.present
    THEN [run.input EXCEPT !.cseq = UndefinedNum]
    ELSE NoInitState

\* _readInitState is called: async.map starts a getData for each node
callReadInitState ==
    /\ InitRunOver
    /\ initRun' = [NoInitRun EXCEPT !.op = "read", !.before = zkInit,
                                    !.pending = InitNodeNames,
                                    !.written = WrittenBy(initRun)]
    /\ UNCHANGED << zkVars, logOffset, initRestVars >>

\* one request of a map or each has answered: the final callback runs on the
\* first error, or when every request has answered without one
Answered(run, n, err, d) ==
    LET pending == run.pending \ {n}
        data == IF err THEN run.data ELSE [run.data EXCEPT ![n] = d]
        outcome == IF run.outcome # "none" THEN run.outcome
                   ELSE IF err THEN "error"
                   ELSE IF pending = {} THEN "ok"
                   ELSE "none"
    IN [run EXCEPT !.pending = pending, !.data = data, !.outcome = outcome,
                   !.value = IF outcome = "ok" /\ run.op = "read"
                             THEN InitStateOf(data) ELSE run.value]

\* getData of node n answers: with the data of the node, or with NO_NODE, on
\* which the node is created by mkdirp and the request gives no data
getData(n) ==
    /\ initRun.op = "read"
    /\ n \in initRun.pending
    /\ IF zkInit[n] = NoNode
       THEN /\ zkInit' = [zkInit EXCEPT ![n] = EmptyNode]
            /\ initRun' = Answered(initRun, n, FALSE, UndefinedVal)
       ELSE /\ initRun' = Answered(initRun, n, FALSE, ReadData(zkInit[n]))
            /\ UNCHANGED zkInit
    /\ UNCHANGED << zkLogOffset, logOffset, initRestVars >>

\* getData of node n answers with an error other than NO_NODE, or the mkdirp
\* that follows NO_NODE fails
getDataFails(n) ==
    /\ initRun.op = "read"
    /\ n \in initRun.pending
    /\ initRun' = Answered(initRun, n, TRUE, UndefinedVal)
    /\ UNCHANGED << zkVars, logOffset, initRestVars >>

\* the states a batch hands to _writeInitState
InitStates ==
    { [present |-> TRUE, isStatusComplete |-> BoolVal(c),
       versionMarker |-> v, keyMarker |-> k, cseq |-> UndefinedNum] :
         c \in BOOLEAN,
         v \in {NullVal, UndefinedVal, StrVal("v1")},
         k \in {NullVal, StrVal("k1")} }

\* _writeInitState is called: without initState it calls back on the next
\* tick, else async.each starts a setData for each node
callWriteInitState ==
    /\ InitRunOver
    /\ \E initState \in InitStates \cup {NoInitState} :
          initRun' =
            [NoInitRun EXCEPT
               !.op = "write", !.input = initState,
               !.pending = IF initState.present THEN InitNodeNames ELSE {},
               !.outcome = IF initState.present THEN "none" ELSE "ok"]
    /\ UNCHANGED << zkVars, logOffset, initRestVars >>

\* when the last setData of the first step of a save has answered, the
\* series goes on to its second step instead of calling back
AfterSetData(run) ==
    IF run.op = "save" /\ run.outcome = "ok"
    THEN [run EXCEPT !.outcome = "none", !.step = 2]
    ELSE run

\* setData of node n stores the text of the state's field
setData(n) ==
    /\ initRun.op \in {"write", "save"}
    /\ n \in initRun.pending
    /\ zkInit[n] # NoNode
    /\ zkInit' = [zkInit EXCEPT ![n] = NodeText(initRun.input[n])]
    /\ initRun' = AfterSetData(Answered(initRun, n, FALSE, UndefinedVal))
    /\ UNCHANGED << zkLogOffset, logOffset, initRestVars >>

\* setData of node n fails: the node is missing, or the Coordinator errs
setDataFails(n) ==
    /\ initRun.op \in {"write", "save"}
    /\ n \in initRun.pending
    /\ initRun' = Answered(initRun, n, TRUE, UndefinedVal)
    /\ UNCHANGED << zkVars, logOffset, initRestVars >>

\* _processSaveLogOffset is called for the batch that ends a snapshot taken
\* at cseq: the first step of the series is _writeInitState
callProcessSaveLogOffset ==
    /\ InitRunOver
    /\ \E initState \in InitStates, cseq \in (logOffset + 1)..MaxOffset :
          /\ initState.isStatusComplete = BoolVal(TRUE)
          /\ initRun' =
               [NoInitRun EXCEPT
                  !.op = "save", !.step = 1, !.before = zkInit,
                  !.input = [initState EXCEPT !.cseq = cseq],
                  !.pending = InitNodeNames]
    /\ UNCHANGED << zkVars, logOffset, initRestVars >>

\* the second step of the series: this.logOffset is raised and
\* _writeLogOffset stores it, or fails to
saveLogOffset ==
    /\ initRun.op = "save"
    /\ initRun.step = 2
    /\ initRun.outcome = "none"
    /\ IF WritesLogOffset(initRun.input.cseq, logOffset)
       THEN /\ logOffset' = NewLogOffset(initRun.input.cseq, logOffset)
            /\ \E failed \in BOOLEAN :
                  /\ zkLogOffset' = IF failed THEN zkLogOffset ELSE logOffset'
                  /\ initRun' =
                       [initRun EXCEPT
                          !.outcome = IF failed THEN "error" ELSE "ok"]
       ELSE /\ initRun' = [initRun EXCEPT !.outcome = "ok"]
            /\ UNCHANGED << zkLogOffset, logOffset >>
    /\ UNCHANGED << zkInit, initRestVars >>

\* a reader that was set up, the init nodes of its bucket present or not
InitStateInit ==
    /\ log = <<>>
    /\ sourceMode = "exact"
    /\ zkInit \in { [isStatusComplete |-> c, versionMarker |-> v,
                     keyMarker |-> k] :
                       c \in {NoNode, "true"}, v \in {NoNode, "v1"},
                       k \in {NoNode, "k1"} }
    /\ zkLogOffset = InitialLogOffset
    /\ pc = "idle"
    /\ batchInProgress = FALSE
    /\ logOffset = InitialLogOffset
    /\ raftId = SourceRaftId
    /\ batchState = NoBatch
    /\ resLog = <<>>
    /\ published = <<>>
    /\ sentSeqs = {}
    /\ readByTail = {}
    /\ inFlight = 0
    /\ lastOutcome = "none"
    /\ atStart = NoProgress
    /\ lastFailed = NoFailed
    /\ snapshotCseq = UndefinedNum
    /\ offset0 = InitialLogOffset
    /\ restarted = FALSE
    /\ originalCseq = UndefinedNum
    /\ snapshotResults = <<>>
    /\ MetricsIdle
    /\ EntryIdle
    /\ StreamIdle
    /\ ConfigIdle
    /\ PathIdle
    /\ BacklogIdle
    /\ InitRunIdle

InitStateNext ==
    \/ callReadInitState
    \/ callWriteInitState
    \/ callProcessSaveLogOffset
    \/ saveLogOffset
    \/ \E n \in InitNodeNames :
          \/ getData(n)
          \/ getDataFails(n)
          \/ setData(n)
          \/ setDataFails(n)

InitStateSpec == InitStateInit /\ [][InitStateNext]_vars

\* ---------------------------------------------------------------- claims
IsPrefix(a, b) == Len(a) <= Len(b) /\ SubSeq(b, 1, Len(a)) = a

InBatch == pc \notin {"uninit", "idle"}

\* C1: logOffset never decreases: from one state to the next, the value
\* stored at the Coordinator's logOffset node never gets smaller, and neither
\* does the logOffset a reader holds in memory (a reader built after a
\* restart starts from the stored value).
C1_LogOffsetNeverDecreases ==
    [][ /\ zkLogOffset # UndefinedNum => zkLogOffset' >= zkLogOffset
        /\ (logOffset # UndefinedNum /\ logOffset' # UndefinedNum)
              => logOffset' >= logOffset ]_vars

\* a checkpoint whose staged offset is behind the reader's logOffset
C1_Witness ==
    /\ pc = "writeLogOffset"
    /\ batchState.nextLogOffset < logOffset
    /\ logOffset = zkLogOffset

\* C2: tail positions are never lost: every record of the source bucket with
\* a sequence number from the handoff offset up to (not including) the stored
\* logOffset was part of a batch the producer accepted, and the checkpoint
\* phase of a batch runs only after the producer accepted that batch.
C2_TailPositionsNeverLost ==
    /\ \A n \in 1..Len(log) :
          (n >= offset0 /\ n < zkLogOffset /\ log[n].db = SourceBucket)
             => n \in sentSeqs
    /\ pc \in {"save", "writeLogOffset"} =>
          /\ batchState.publishedEntries = Len(batchState.entriesToPublish)
          /\ published # <<>>
          /\ published[Len(published)] = batchState.entriesToPublish

\* the stored offset has moved past a record of the bucket that was sent
C2_Witness ==
    /\ zkLogOffset > offset0
    /\ \E n \in 1..Len(log) :
          /\ n >= offset0 /\ n < zkLogOffset
          /\ log[n].db = SourceBucket
          /\ n \in sentSeqs

\* C3: when the producer returns an error in a tail batch, the batch ends
\* with that error and writes neither the init state nor logOffset; the next
\* batch of the reader reads from the same startSeq, and the events it hands
\* to the producer start with the events of the failed batch, in order.
C3_PublishFailureIsRetried ==
    [][ /\ (pc = "send" /\ lastFailed'.age = 0
              /\ lastFailed'.startSeq # UndefinedNum)
           => /\ pc' = "idle"
              /\ lastOutcome' = "error"
              /\ UNCHANGED << zkInit, zkLogOffset, logOffset >>
        /\ (lastFailed'.age = 1 /\ pc' = "readInit")
           => batchState'.startSeq = lastFailed'.startSeq
        /\ (lastFailed'.age = 1 /\ pc' = "send")
           => /\ batchState'.startSeq = lastFailed'.startSeq
              /\ IsPrefix(lastFailed'.entries, batchState'.entriesToPublish)
      ]_vars

\* the batch after a publish failure is about to send the same two events
C3_Witness ==
    /\ pc = "send"
    /\ lastFailed.age = 1
    /\ Len(lastFailed.entries) >= 2
    /\ batchState.entriesToPublish = lastFailed.entries

C5_NoMutationMissed ==
    \A n \in 1..MaxLog :
       (snapshotCseq # UndefinedNum /\ n >= snapshotCseq /\ n <= Len(log))
          ~> (n \in readByTail)

\* C6: once isStatusComplete = true is stored, it stays stored, every batch
\* that gets its init state goes on to getRaftLog, and the snapshot producer
\* is not called again, by this reader or by one built after a restart.
C6_SnapshotNeverRepeated ==
    [][ zkInit.isStatusComplete = "true"
          => /\ zkInit'.isStatusComplete = "true"
             /\ pc' # "snapshot"
             /\ (pc = "readInit" /\ pc' \notin {"readInit", "idle", "uninit"})
                   => pc' = "getRaftLog" ]_vars

\* a reader built after a restart is reading the tail of a completed bucket
C6_Witness ==
    /\ restarted
    /\ zkInit.isStatusComplete = "true"
    /\ pc = "prepare"
    /\ batchState.delivered >= 1

\* C7: at most one batch cycle is in flight: _batchInProgress is true exactly
\* from the entry of processLogEntries until its callback runs, and no
\* second batch is started in between.
C7_AtMostOneBatch ==
    /\ inFlight <= 1
    /\ batchInProgress <=> (inFlight = 1)
    /\ batchInProgress <=> InBatch

\* a batch is waiting for the producer while the scheduler could tick
C7_Witness ==
    /\ pc = "send"
    /\ batchInProgress
    /\ inFlight = 1
    /\ Len(published) < MaxPublished

\* C8: every batch cycle that starts eventually finishes: its callback runs
\* and isBatchInProgress() is false again.
C8_EveryBatchFinishes == batchInProgress ~> ~batchInProgress

\* C9: a batch that ends with an error leaves the stored init state, the
\* stored logOffset and the reader's logOffset as they were when it started.
C9_FailedBatchLeavesProgress ==
    (pc = "idle" /\ lastOutcome = "error") => Progress = atStart

\* C10: a tail batch whose answer starts at s and whose stream delivered k
\* records stages nextLogOffset = s + k, and when the batch has succeeded and
\* s + k exceeds the logOffset it started from, logOffset (in memory and
\* stored) is s + k.
C10_TailOffsetIsStartPlusCount ==
    /\ pc \in {"send", "save", "writeLogOffset"}
          => batchState.nextLogOffset
               = batchState.infoStart + batchState.delivered
    /\ (pc = "idle" /\ lastOutcome = "ok"
          /\ batchState.infoStart + batchState.delivered > atStart.logOffset)
          => /\ logOffset = batchState.infoStart + batchState.delivered
             /\ zkLogOffset = logOffset

\* a batch of two records has succeeded and raised logOffset by two
C10_Witness ==
    /\ pc = "idle"
    /\ lastOutcome = "ok"
    /\ batchState.delivered = 2
    /\ logOffset = batchState.infoStart + 2
    /\ logOffset > atStart.logOffset
    /\ zkLogOffset = logOffset

\* C11: when the source answers 404 or 416 to a tail batch, the batch ends
\* with its callback called without error, nothing is handed to the producer,
\* and logOffset (in memory and stored) is as it was.
C11_NotFoundCompletesBatch ==
    [][ (pc = "getRaftLog" /\ batchState'.infoStart = NullNum)
          => /\ pc' = "idle"
             /\ lastOutcome' = "ok"
             /\ ~batchInProgress'
             /\ UNCHANGED << published, logOffset, zkLogOffset >> ]_vars

\* whether batch b is one put event per key of keys, keyed by the object key
OnePutPerObject(b, keys) ==
    /\ Len(b) = Cardinality(keys)
    /\ \A k \in keys :
          \E j \in 1..Len(b) : b[j].type = "put" /\ b[j].key = k

\* C12: cold start: a batch that enters the snapshot phase ends successfully
\* with one put event per object of the bucket (as it was at some moment of
\* the batch) handed to the producer, the stored isStatusComplete true, and
\* the stored logOffset equal to the cseq the source returned.
C12_ColdStartIngestsAllObjects ==
    (pc = "snapshot")
       ~> /\ lastOutcome = "ok"
          /\ published # <<>>
          /\ \E m \in 0..Len(log) :
                OnePutPerObject(published[Len(published)],
                                BucketKeys({}, SubSeq(log, 1, m)))
          /\ zkInit.isStatusComplete = "true"
          /\ zkLogOffset = snapshotCseq

\* how many times e occurs in sequence a
Occurrences(a, e) == Cardinality({ i \in 1..Len(a) : a[i] = e })

SameMultiset(a, b) ==
    /\ Len(a) = Len(b)
    /\ \A i \in 1..Len(a) : Occurrences(a, a[i]) = Occurrences(b, a[i])

\* C13: two runs of snapshot() on the same producer over a bucket holding the
\* same objects call back with the same multiset of events.
C13_SnapshotTwiceSameEvents ==
    \A i, j \in 1..Len(snapshotResults) :
       snapshotResults[i].objects = snapshotResults[j].objects
          => SameMultiset(snapshotResults[i].res, snapshotResults[j].res)

\* C14: a snapshot that is re-entered after a crash, when the source's cseq
\* has moved on since the snapshot's original start, completes with the
\* stored logOffset equal to the cseq of the original start.
C14_ResumedSnapshotKeepsOriginalCseq ==
    (restarted /\ pc = "snapshot" /\ snapshotCseq # originalCseq)
       ~> (zkInit.isStatusComplete = "true" /\ zkLogOffset = originalCseq)

WellFormedEvent(e) ==
    /\ e.type \in {"put", "del"}
    /\ e.bucket # UndefinedStr
    /\ e.bucket # <<>>

RECURSIVE Flatten(_)
Flatten(seqs) ==
    IF seqs = <<>> THEN <<>> ELSE Head(seqs) \o Flatten(Tail(seqs))

\* the events of the i-th record the batch in flight was delivered, entry by
\* entry, as the source log holds that record
EventsOfDelivered(i) ==
    LET record == ListRecordTransform(log[batchState.infoStart + i - 1]) IN
    IF record.db = SourceBucket
    THEN Flatten([j \in 1..Len(record.entries) |->
                    ProcessLogEntry(record, record.entries[j])])
    ELSE <<>>

KeyPosition(k) == CHOOSE i \in 1..Len(KeyOrder) : KeyOrder[i] = k

\* C16: the events of a batch are in source order: those staged by a tail
\* batch are the events of its records in stream order, and of the entries of
\* each record in entry order; the entries a snapshot produced are in the
\* order of the object listing, whatever order the metadata requests
\* completed in.
C16_EventsInSourceOrder ==
    /\ pc \in {"prepare", "send", "save", "writeLogOffset"} =>
          batchState.entriesToPublish
             = Flatten([i \in 1..batchState.delivered |-> EventsOfDelivered(i)])
    /\ \A i, j \in 1..Len(resLog) :
          i < j => KeyPosition(resLog[i].key) < KeyPosition(resLog[j].key)

\* a batch of two records, one of them with two entries, is about to be sent
C16_Witness ==
    /\ pc = "send"
    /\ batchState.delivered = 2
    /\ Len(batchState.entriesToPublish) = 3
    /\ batchState.entriesToPublish[1].key # batchState.entriesToPublish[2].key

\* the events of the i-th delivered record if records of the source bucket
\* and of the two special containers are the ones that produce events
EventsOfContainers(i) ==
    LET record == ListRecordTransform(log[batchState.infoStart + i - 1]) IN
    IF record.db \in {SourceBucket, UsersBucket, MetastoreBucket}
    THEN Flatten([j \in 1..Len(record.entries) |->
                    ProcessLogEntry(record, record.entries[j])])
    ELSE <<>>

\* C17: in a tail batch the records that produce events are those whose db is
\* the source bucket, users..bucket or metastore, and no others: the staged
\* events are the events of exactly those records, and every delivered record
\* is counted.
C17_SpecialContainersProduceEvents ==
    pc \in {"prepare", "send", "save", "writeLogOffset"} =>
       /\ batchState.entriesToPublish
             = Flatten([i \in 1..batchState.delivered |-> EventsOfContainers(i)])
       /\ batchState.nbLogRecordsRead = batchState.delivered

\* the groups a check with the given groupId argument looks at
CheckedGroups(node, groupId) ==
    IF groupId # Null THEN {groupId}
    ELSE { node.consumers[i].label : i \in 1..Len(node.consumers) }

\* partition node has a topic offset and an offset of a checked group that
\* are more than maxLag apart
ExceedsMaxLag(node, groupId, maxLag) ==
    /\ node.topic # NoNodeOffset
    /\ \E g \in CheckedGroups(node, groupId) :
          /\ ReadConsumerOffset(node, g) # NoNodeOffset
          /\ node.topic - ReadConsumerOffset(node, g) > maxLag

\* C18: checkConsumerLag calls back with a checkInfo exactly when some
\* partition listed under the topic has topicOffset - consumerOffset > maxLag,
\* and with success otherwise.
C18_LagCheckSucceedsIffNoLag ==
    (checkCall.op = "checkConsumerLag" /\ checkOutcome.kind # "error") =>
       LET lagging == \E i \in 1..Len(zkOffsets.partitions) :
                         ExceedsMaxLag(zkOffsets.partitions[i],
                                       checkCall.groupId, checkCall.maxLag)
       IN /\ lagging => checkOutcome.kind = "checkInfo"
          /\ ~lagging => checkOutcome.kind = "success"

\* partition node has a snapshot offset that an offset of a checked group is
\* behind
BehindSnapshot(node, groupId) ==
    /\ node.snapshot # NoNodeOffset
    /\ \E g \in CheckedGroups(node, groupId) :
          /\ ReadConsumerOffset(node, g) # NoNodeOffset
          /\ ReadConsumerOffset(node, g) < node.snapshot

\* C19: checkConsumerProgress calls back with success exactly when every
\* partition of the topic either has no snapshot node or has its consumer
\* offset at or past the snapshot offset, and with a checkInfo when some
\* partition's consumer is behind its snapshot offset.
C19_ProgressCheckSucceedsIffCaughtUp ==
    (checkCall.op = "checkConsumerProgress" /\ checkOutcome.kind # "error") =>
       LET behind == \E i \in 1..Len(zkOffsets.partitions) :
                        BehindSnapshot(zkOffsets.partitions[i], checkCall.groupId)
       IN /\ behind => checkOutcome.kind = "checkInfo"
          /\ ~behind => checkOutcome.kind = "success"

\* the first group, in listing order, of partition node whose offset is more
\* than maxLag behind the topic offset (0 if there is none)
FirstLaggingGroup(node, groupId, maxLag) ==
    LET offsets == ConsumerOffsets(node, groupId)
        lagging == { i \in 1..Len(offsets) :
                        /\ offsets[i].offset # NoNodeOffset
                        /\ node.topic # NoNodeOffset
                        /\ node.topic - offsets[i].offset > maxLag }
    IN IF lagging = {} THEN 0
       ELSE CHOOSE i \in lagging : \A k \in lagging : i <= k

\* C20: a checkInfo returned by checkConsumerLag describes the first
\* partition, in the Coordinator's listing order, that exceeds maxLag, and the
\* first lagging group of that partition; its lag is
\* max(0, topicOffset - consumerOffset), so never negative.
C20_CheckInfoIsFirstLagging ==
    (checkCall.op = "checkConsumerLag" /\ checkOutcome.kind = "checkInfo") =>
       LET parts == zkOffsets.partitions
           first == CHOOSE i \in 1..Len(parts) :
                       /\ ExceedsMaxLag(parts[i], checkCall.groupId, checkCall.maxLag)
                       /\ \A k \in 1..(i - 1) :
                             ~ExceedsMaxLag(parts[k], checkCall.groupId,
                                            checkCall.maxLag)
           g == FirstLaggingGroup(parts[first], checkCall.groupId, checkCall.maxLag)
           offsets == ConsumerOffsets(parts[first], checkCall.groupId)
       IN /\ \E i \in 1..Len(parts) :
                ExceedsMaxLag(parts[i], checkCall.groupId, checkCall.maxLag)
          /\ checkOutcome.partition = ParseInt(parts[first].partition)
          /\ g # 0
          /\ checkOutcome.groupId = offsets[g].label
          /\ checkOutcome.consumerOffset = offsets[g].offset
          /\ checkOutcome.targetOffset = parts[first].topic
          /\ checkOutcome.lag >= 0
          /\ checkOutcome.lag > checkOutcome.maxLag
          /\ checkOutcome.lag
                = (IF parts[first].topic - offsets[g].offset > 0
                   THEN parts[first].topic - offsets[g].offset ELSE 0)

\* watermarks {100, 200}, offsets of G {90, 199}, maxLag 5: partition 0 is
\* reported with lag 10, though partition 1 is listed first
C20_Witness ==
    /\ checkCall.op = "checkConsumerLag"
    /\ checkCall.groupId = "G"
    /\ checkCall.maxLag = 5
    /\ Len(zkOffsets.partitions) = 2
    /\ zkOffsets.partitions[1].partition = "1"
    /\ zkOffsets.partitions[1].topic = 200
    /\ ReadConsumerOffset(zkOffsets.partitions[1], "G") = 199
    /\ zkOffsets.partitions[2].topic = 100
    /\ ReadConsumerOffset(zkOffsets.partitions[2], "G") = 90
    /\ checkOutcome.kind = "checkInfo"
    /\ checkOutcome.partition = 0
    /\ checkOutcome.lag = 10

\* C30: a write to the Coordinator's logOffset node is issued only by a
\* batch whose staged nextLogOffset is strictly greater than the reader's
\* logOffset: when the checkpoint phase finds nextLogOffset undefined, equal
\* to logOffset or smaller than it, it goes on without calling
\* _writeLogOffset.
C30_WriteOnlyWhenGreater ==
    [][ (pc = "save" /\ pc' = "writeLogOffset")
          => /\ batchState.nextLogOffset # UndefinedNum
             /\ batchState.nextLogOffset > logOffset ]_vars

\* C29: a tail batch whose records staged no event for the target bucket
\* (every record read belongs to another bucket) goes on from the end of the
\* stream to the checkpoint phase without calling the producer, with
\* nextLogOffset staged at start + records read, so that the batch ends
\* without error and logOffset moves past the records read.
C29_EmptyBatchAdvances ==
    [][ ( /\ pc = "prepare"
          /\ batchState.stream = <<>>
          /\ batchState.delivered >= 1
          /\ batchState.entriesToPublish = <<>>
          /\ batchState'.nextLogOffset # batchState.nextLogOffset )
          => /\ pc' = "save"
             /\ batchState'.nextLogOffset
                  = batchState.infoStart + batchState.delivered
             /\ UNCHANGED published ]_vars

\* whether the entry as the source sent it has a key or a type
HasKeyOrType(e) == e.key # UndefinedStr \/ e.type # Undefined

CallsTo(ext) ==
    Cardinality({ j \in 1..Len(filterCalls) : filterCalls[j].ext = ext })

\* C28: of the entries handed to the entry code (a tail record of the
\* ingested bucket, or a snapshot result), one with neither key nor type
\* leads to no filter call, and every other one is passed to each extension
\* exactly once: each extension is called once per entry that has a key or
\* a type.
C28_KeylessTypelessDropped ==
    (filterInput.phase = "snapshot"
        \/ (filterInput.phase = "tail" /\ filterInput.db = SourceBucket))
       => \A i \in 1..Len(Extensions) :
             CallsTo(Extensions[i])
               = Cardinality({ n \in 1..Len(filterInput.entries) :
                                  HasKeyOrType(filterInput.entries[n]) })

\* the entry the j-th filter call of a tail record was made for, when every
\* entry of the record was passed to every extension
EntryOfCall(j) == filterInput.entries[((j - 1) \div Len(Extensions)) + 1]

\* C27: for a tail record that reaches the extensions, the event passed to
\* filter has, for db users..bucket, the key <head before ..|..>..|..<target>
\* and bucket users..bucket; for db metastore, the key <head before />/<target>
\* and bucket metastore; for any other db, the entry's own key and the target
\* bucket as bucket.
C27_KeyRewrite ==
    (filterInput.phase = "tail"
        /\ Len(filterCalls) = Len(Extensions) * Len(filterInput.entries))
       => \A j \in 1..Len(filterCalls) :
             LET e == EntryOfCall(j)
                 c == filterCalls[j].event
             IN IF filterInput.db = UsersBucket
                THEN /\ c.key = SplitHead(e.key, "..|..") \o <<"..|..">>
                                   \o TargetZenkoBucket
                     /\ c.bucket = UsersBucket
                ELSE IF filterInput.db = MetastoreBucket
                THEN /\ c.key = SplitHead(e.key, "/") \o <<"/">>
                                   \o TargetZenkoBucket
                     /\ c.bucket = MetastoreBucket
                ELSE /\ c.key = e.key
                     /\ c.bucket = TargetZenkoBucket

\* C26: a readLog call reports its outcome exactly once. A transport error
\* other than 404/416 before the header, and a transport error or malformed
\* JSON after the header (the step that leaves the prepare phase with the
\* stream not ended and nothing staged for the checkpoint), each deliver one
\* failure to the caller: the batch ends with its callback given the error,
\* and nothing is thrown.
C26_StreamFailureReportedOnce ==
    [][ ( \/ /\ pc = "getRaftLog"
             /\ pc' \notin {"getRaftLog", "uninit", "prepare"}
             /\ batchState' = batchState
          \/ /\ pc = "prepare"
             /\ pc' \notin {"prepare", "uninit"}
             /\ batchState' = batchState )
          => /\ pc' = "idle"
             /\ lastOutcome' = "error"
             /\ inFlight' = inFlight - 1 ]_vars

\* C25: in the tail phase the header is surfaced before any record is
\* delivered, and once it is, the caller receives every record of the log
\* array exactly once and in order, and then end.
C25_AllRecordsThenEnd ==
    /\ [](raftLogStream.received # <<>> => raftLogStream.headerDone)
    /\ raftLogStream.headerDone
          ~> /\ raftLogStream.endSeen
             /\ raftLogStream.received = [i \in 1..raftLogStream.n |-> i]

\* C23: raftId is set once: after a setup() has succeeded, no later step (a
\* repeated setup(), a refresh()) changes raftId, logId or pathToLogOffset.
C23_RaftIdSetOnce ==
    [][ raftId # NullNum
          => /\ raftId' = raftId
             /\ logId' = logId
             /\ pathToLogOffset' = pathToLogOffset ]_vars

\* whether one of accessKey, secretKey, host, port, https differs
EditableFieldDiffers(a, b) ==
    \/ a.auth.accessKey # b.auth.accessKey
    \/ a.auth.secretKey # b.auth.secretKey
    \/ a.host # b.host
    \/ a.port # b.port
    \/ a.https # b.https

\* C24: a refresh(sourceInfo) rebuilds the Source Client if and only if one
\* of accessKey, secretKey, host, port, https differs between the reader's
\* config and sourceInfo, and in either case leaves logOffset, raftId, the
\* Coordinator paths, _batchInProgress and the stored progress as they were.
C24_RefreshRebuildsIffChanged ==
    [][ lastCall'.op = "refresh"
          => /\ lastCall'.rebuilt
                  <=> EditableFieldDiffers(bucketdConfig, lastCall'.sourceInfo)
             /\ lastCall'.rebuilt => iProducer' = lastCall'.sourceInfo
             /\ UNCHANGED << logOffset, raftId, logId, pathToLogOffset,
                             batchInProgress, zkInit, zkLogOffset,
                             zkOtherLogOffset >> ]_vars

\* C21: while publishConsumerBacklog runs, a reader of the Coordinator never
\* finds, for any partition, a stored consumer offset newer than the stored
\* topic offset.
C21_ConsumerNeverAheadOfTopic ==
    \A p \in TopicPartitions :
       zkPublished[p].consumers # NoNodeOffset
          => /\ zkPublished[p].topic # NoNodeOffset
             /\ zkPublished[p].consumers <= zkPublished[p].topic

\* C22: the callback of snapshotTopicOffsets is never called twice; when it
\* was called without error for a topic that exists, every partition has a
\* snapshot node holding the high watermark read for it during the call (a
\* value between the watermark at the start of the call and the current one).
C22_SnapshotHoldsWatermarks ==
    backlogRun.op = "snapshot"
       => /\ backlogRun.cbCount <= 1
          /\ backlogRun.outcome = "error" => backlogRun.cbCount = 1
          /\ backlogRun.outcome = "ok"
                => \A p \in TopicPartitions :
                      /\ zkPublished[p].snapshots # NoNodeOffset
                      /\ zkPublished[p].snapshots
                           = backlogRun.tasks[p].topicOffset
                      /\ zkPublished[p].snapshots >= backlogRun.hwAtStart[p]
                      /\ zkPublished[p].snapshots <= kafkaOffsets.hw[p]

\* a snapshot has called back without error; a partition's watermark was
\* raised during the call before it was read, and another one after
C22_Witness ==
    /\ backlogRun.op = "snapshot"
    /\ backlogRun.outcome = "ok"
    /\ backlogRun.cbCount = 1
    /\ \E p \in TopicPartitions :
          /\ zkPublished[p].snapshots > backlogRun.hwAtStart[p]
          /\ \E q \in TopicPartitions \ {p} :
                zkPublished[q].snapshots < kafkaOffsets.hw[q]


\* C31: in a snapshot no event is emitted for an object whose metadata
\* request failed, and one is emitted for every other listed object.
C31_FailedMetadataSkipped ==
    \A i \in 1..Len(snapshotResults) :
       LET r == snapshotResults[i]
           pushed == SubSeq(r.res,
                            Len(r.res) - Len(r.objects) + 1, Len(r.res)) IN
       /\ \A j \in 1..Len(pushed) : pushed[j].key \notin r.failed
       /\ \A j \in 1..Len(r.objects) :
             r.objects[j] \notin r.failed
                => \E n \in 1..Len(pushed) : pushed[n].key = r.objects[j]


\* the i-th record the stream delivered to the batch in flight
DeliveredRecord(i) == ListRecordTransform(log[batchState.infoStart + i - 1])

RECURSIVE EntriesDelivered(_)
\* the number of entries in the first n records delivered
EntriesDelivered(n) ==
    IF n = 0 THEN 0
    ELSE EntriesDelivered(n - 1) + Len(DeliveredRecord(n).entries)

\* C33: once the prepare phase of a tail batch is over, nbLogRecordsRead is
\* the number of records the stream delivered and nbLogEntriesRead the number
\* of entries in those records, records of other buckets included.
C33_CountsEveryRecordAndEntry ==
    pc \in {"send", "save", "writeLogOffset"} =>
       /\ batchState.nbLogRecordsRead = batchState.delivered
       /\ batchState.nbLogEntriesRead = EntriesDelivered(batchState.delivered)

\* a batch of two records, one of them of another bucket, is about to be sent
C33_Witness ==
    /\ pc = "send"
    /\ batchState.delivered = 2
    /\ \E i \in 1..2 : DeliveredRecord(i).db # SourceBucket
    /\ batchState.nbLogEntriesRead >= 2


\* C35: whenever no batch is in progress on a reader that was set up, the
\* reader's logOffset is the value stored at the logOffset node.
C35_MemoryEqualsStoredOffset ==
    (pc = "idle" /\ ~batchInProgress) => logOffset = zkLogOffset


\* C36: a call of processLogEntries runs its completion callback exactly once
\* and each phase completes at most once. When the prepare phase is left
\* after records were delivered and events staged, by the stream's end or by
\* its error, either the publish phase begins or the callback of the call is
\* run with the error; the call is never left without its callback.
C36_CallbackOncePerCall ==
    [][ ( /\ pc = "prepare"
          /\ batchState.delivered > 0
          /\ batchState.entriesToPublish # <<>>
          /\ pc' \notin {"prepare", "uninit"} )
          => \/ /\ pc' = "send"
                /\ inFlight' = inFlight
             \/ /\ pc' = "idle"
                /\ lastOutcome' = "error"
                /\ inFlight' = inFlight - 1 ]_vars


\* C39: after any sequence of refresh calls, failed ones included, the
\* Source Client in use was built from the reader's current bucketdConfig,
\* and a refresh that fails leaves bucketdConfig as it was.
C39_ClientBuiltFromCurrentConfig ==
    /\ iProducer # NoProducer => iProducer = bucketdConfig
    /\ (lastCall.op = "refresh" /\ lastCall.outcome # "ok")
          => bucketdConfig # lastCall.sourceInfo


C38_ReadersShareNoNode ==
    /\ \A p \in InitPaths : Cardinality(zkInitTree[p].by) <= 1
    /\ \A p \in LogOffsetPaths : Cardinality(zkLogOffsetTree[p].by) <= 1


\* C32: _readInitState returns the three fields from the three init nodes;
\* a node that was absent is created and its field returned as null
\* (isStatusComplete as false), and a read that fails with a Coordinator
\* error has created nothing.
C32_ReadInitStateResult ==
    initRun.op = "read" =>
       /\ initRun.outcome = "ok" =>
             /\ \A n \in InitNodeNames : zkInit[n] # NoNode
             /\ initRun.value.isStatusComplete
                   = (initRun.before.isStatusComplete = "true")
             /\ \A n \in {"versionMarker", "keyMarker"} :
                   initRun.value[n] = IF initRun.before[n] = NoNode
                                      THEN NullVal
                                      ELSE StrVal(initRun.before[n])
       /\ initRun.outcome = "error" => zkInit = initRun.before


\* C40: a _readInitState that follows _writeInitState(s) returns s:
\* isStatusComplete as the same boolean, each marker as the same string, and
\* a marker that was null or absent as null.
C40_WriteThenReadRoundTrip ==
    (initRun.op = "read" /\ initRun.outcome = "ok" /\ initRun.written.present)
       => /\ initRun.value.isStatusComplete
                = (initRun.written.isStatusComplete = BoolVal(TRUE))
          /\ \A n \in {"versionMarker", "keyMarker"} :
                initRun.value[n]
                   = IF initRun.written[n].kind \in {"null", "undefined"}
                     THEN NullVal
                     ELSE initRun.written[n]


====
